---- MODULE Spec2Model ----
(***************************************************************************)
(* A model of the hub prototypes of noidier/Information_Network.           *)
(*                                                                         *)
(* The repository holds independent programs.  The variable sys says which *)
(* one a behaviour runs:                                                   *)
(*   "shallow"   ShallowHub and its ShallowHubClients                      *)
(*               (src/shallow_hub_python.py): a hub worker, one listener   *)
(*               thread and one application thread per client, queues      *)
(*               between them;                                             *)
(*   "connector" Node / HubConnector (src/node_library.py): sequential;    *)
(*   "enhanced"  EnhancedThreadHub (src/python-message-interception.py):   *)
(*               sequential;                                               *)
(*   "scope"     the Hub of complete-system-pseudocode.py: a thread hub    *)
(*               and its parent hub, sequential;                           *)
(*   "network"   a NetworkHubClient (network_hub_python_client.py) used by  *)
(*               two threads, and the connection to its hub;               *)
(*   "singleton" EnhancedThreadHub.get_instance called by two threads;     *)
(*   "codec"     to_dict / from_dict of the message classes of             *)
(*               shallow_hub_python.py, each applied to one object;        *)
(*   "matchers"  the pattern matchers of the three programs, each applied  *)
(*               to one pattern and one topic.                             *)
(*                                                                         *)
(* Strings that are matched against patterns (topics, patterns) are tuples *)
(* of one-character strings, so that endswith / startswith / [:-1] are     *)
(* computed and not assumed.                                               *)
(*                                                                         *)
(* ShallowHub keeps its tables in multiprocessing.Manager dictionaries.    *)
(* The model reads them as ordinary shared dictionaries, which is what the *)
(* hub code is written against.  (Under CPython the first register_client  *)
(* raises RuntimeError, a Queue cannot be stored in a Manager dict, so     *)
(* with the library's exact behaviour no client ever connects; and an      *)
(* append to a list read from a Manager dict changes a copy.)  What the    *)
(* code itself spells out is kept: _store_request_origin and               *)
(* _get_request_origin call self.manager.dict(), a constructor, and so     *)
(* each works on a new, empty dictionary.                                  *)
(***************************************************************************)
EXTENDS Integers, Sequences, FiniteSets, TLC

(***************************************************************************)
(* Bounds                                                                  *)
(***************************************************************************)
\* Hub messages (message ids) in a behaviour of the ShallowHub system whose
\* applications register and call APIs, ...
MaxApiMsgs == 2
\* ... whose applications subscribe, register interceptors and publish, ...
MaxPubMsgs == 3
\* ... whose applications only subscribe and register interceptors.
MaxRegMsgs == 2
\* Operations in a behaviour of the sequential hubs (HubConnector,
\* EnhancedThreadHub).
MaxOps == 4
\* Characters in a pattern or topic handed to the matchers.
MaxLen == 3
\* Nested handle_request frames before the interpreter raises RecursionError.
RecursionLimit == 2

Clients == {"c1", "c2"}
Paths == {"/a"}
Patterns == {<<"t", "a">>, <<"t", "*">>}
Topics == {<<"t", "a">>, <<"t", "*">>}
Priorities == {0, 1}
PubPriorities == {0}
ApiHandlerKinds == {"ok", "raise"}
\* What a HubConnector registration may hold as its handler: a callable that
\* answers, one that raises, or None
NodeHandlerKinds == ApiHandlerKinds \cup {"absent"}
InterceptorKinds == {"null", "value"}
\* A subscriber's callback: a callable that returns, or one that raises
CallbackKinds == {"returns", "raises"}

MaxOf(S) == CHOOSE x \in S : \A y \in S : y <= x

Ids == 1..MaxOf({MaxApiMsgs, MaxPubMsgs, MaxRegMsgs})

\* Python's None where the other values are records, strings (a client id, a
\* handler) and payloads.
None == [none |-> TRUE]
NoClient == "None"
NoHandler == "None"
NoData == <<>>
\* HubMessage(..., None): a uuid of its own that no request carries
FreshId == 0

(***************************************************************************)
(* HubMessage type codes (class HubMessage)                                *)
(***************************************************************************)
TYPE_API_REQUEST == 1
TYPE_API_RESPONSE == 2
TYPE_PUBLISH == 3
TYPE_SUBSCRIBE == 4
TYPE_REGISTER_API == 5
TYPE_REGISTER_INTERCEPTOR == 6
TYPE_SHUTDOWN == 99

VARIABLES
    sys,
    \* ---- ShallowHub
    api_registry,            \* path -> api_data | None
    subscriptions,           \* dict pattern -> list, as a sequence of <<pattern, list>> in insertion order
    interceptors,            \* same shape
    clients,                 \* client_id -> [registered, active]
    hub_queue,               \* messages to the hub
    hub_running,             \* self.running, and where the hub worker was when it was cleared
    shutdown_at,             \* history: next_id when shutdown() was called, 0 before
    client_queue,            \* client_id -> that client's queue
    \* ---- ShallowHubClient, per client
    connected,
    running,
    api_handlers,            \* client -> (path -> handler | NoHandler)
    subscription_handlers,   \* client -> dict pattern -> list of [id, priority]
    interceptor_handlers,    \* client -> dict pattern -> list of [id, priority, kind]
    pending_requests,        \* client -> set of message ids
    response_event,          \* message id -> the Event of that request is set
    response_dict,           \* message id -> None | [data, message_id]
    \* ---- the application thread of each client
    pc,                      \* "idle" | "sent" | "waiting" | "expired"
    cur,                     \* the message id of the operation in progress
    next_id,                 \* the next fresh uuid
    \* ---- history
    requests,                \* message id -> what was asked, by whom
    result,                  \* message id -> what the operation returned to its caller
    hub_log,                 \* message id -> what the hub did with the message
    invoked,                 \* client -> sequence of [sub, pub]: subscriber callbacks run
    discarded,               \* message id -> a response with that id found no pending entry
    \* ---- HubConnector (node_library.py)
    local_registry,          \* _local_registry: dict path -> [handler, metadata]
    local_subscriptions,     \* _local_subscriptions: dict pattern -> list
    local_interceptors,      \* _local_interceptors: dict pattern -> list
    local_method_interceptors, \* Node._local_method_interceptors: dict class -> dict method -> list
    \* ---- EnhancedThreadHub (python-message-interception.py)
    message_interceptors,    \* dict topic -> list of <<priority, interceptor>>
    method_interceptors,     \* dict <<cls, method_name>> -> list of <<priority, interceptor>>
    \* ---- Hub of the system pseudocode (complete-system-pseudocode.py)
    scope_registry,          \* hub -> (path -> [handler, metadata] | None): hub.registry
    scope_interceptors,      \* hub -> (path -> list of handlers): hub.interceptors
    \* ---- NetworkHubClient (network_hub_python_client.py), used by threads
    connect_lock,            \* self.connect_lock: the thread that holds it, or NoThread
    connection,              \* self._connection: "None", or the state of the socket
    net_pc,                  \* thread -> its position in connect / disconnect / _send_request
    net_log,                 \* thread -> its current call: what it did, how it ended
    net_calls,               \* calls made so far
    \* ---- EnhancedThreadHub.get_instance, called by threads
    instance,                \* EnhancedThreadHub._instance: None, or a hub
    get_pc,                  \* thread -> its position in get_instance
    get_new,                 \* thread -> the hub its call has constructed
    got,                     \* history: thread -> the hubs its calls returned, in order
    hubs_made,               \* history: EnhancedThreadHub objects constructed so far
    \* ---- NetworkHubClient: subscriptions and the listener thread
    handlers_stored,         \* entries in self._subscription_handlers
    subscription_thread,     \* self._subscription_thread: "None" or "Thread"
    net_running,             \* self._running
    listener_pc,             \* the thread of _subscription_listener: its position
    \* ---- SecureApiGateway
    routes,                  \* self.routes: the paths that have a route
    \* ---- history of the sequential hubs
    ops,                     \* operations performed so far
    last                     \* the last operation: its input, the callbacks it ran, its result

shallow_vars == <<api_registry, subscriptions, interceptors, clients, hub_queue,
                  hub_running, shutdown_at,
                  client_queue, connected, running, api_handlers,
                  subscription_handlers, interceptor_handlers, pending_requests,
                  response_event, response_dict, pc, cur, next_id, requests,
                  result, hub_log, invoked, discarded>>

node_vars == <<local_registry, local_subscriptions, local_interceptors,
               local_method_interceptors>>

enhanced_vars == <<message_interceptors, method_interceptors>>

scope_vars == <<scope_registry, scope_interceptors>>

net_vars == <<connect_lock, connection, net_pc, net_log, net_calls>>

singleton_vars == <<instance, get_pc, get_new, got, hubs_made>>

\* The programs that are modelled apart from the hubs above
listener_vars == <<handlers_stored, subscription_thread, net_running, listener_pc>>

apart_vars == <<singleton_vars, listener_vars, routes>>

seq_vars == <<node_vars, enhanced_vars, scope_vars, net_vars, apart_vars, ops, last>>

vars == <<sys, shallow_vars, seq_vars>>

\* What no step of the hub worker touches, and no step of a client.
outside_hub == <<sys, seq_vars, shutdown_at>>

outside_shallow == <<outside_hub, hub_running>>

(***************************************************************************)
(* Python values                                                           *)
(***************************************************************************)
\* A dict whose iteration order matters: a sequence of <<key, value>> in
\* insertion order.
DictHas(d, k) == \E i \in DOMAIN d : d[i][1] = k

DictGet(d, k) == d[CHOOSE i \in DOMAIN d : d[i][1] = k][2]

DictSet(d, k, v) ==
    IF DictHas(d, k)
    THEN [i \in DOMAIN d |-> IF d[i][1] = k THEN <<k, v>> ELSE d[i]]
    ELSE Append(d, <<k, v>>)

\* An insertion that puts a new entry in front of those of its priority.
InsertBeforeEqualPriority(sorted, e) ==
    LET k == Cardinality({i \in DOMAIN sorted : sorted[i].priority > e.priority})
    IN  SubSeq(sorted, 1, k) \o <<e>> \o SubSeq(sorted, k + 1, Len(sorted))

\* sorted(list, key=lambda x: x["priority"], reverse=True) and
\* list.sort(key=..., reverse=True): a stable sort; reverse=True keeps the
\* original order of elements with equal keys.
InsertByPriorityReverse(sorted, e) ==
    LET k == Cardinality({i \in DOMAIN sorted : sorted[i].priority >= e.priority})
    IN  SubSeq(sorted, 1, k) \o <<e>> \o SubSeq(sorted, k + 1, Len(sorted))

RECURSIVE SortedByPriorityReverse(_)
SortedByPriorityReverse(list) ==
    IF list = <<>> THEN <<>>
    ELSE InsertByPriorityReverse(
             SortedByPriorityReverse(SubSeq(list, 1, Len(list) - 1)),
             list[Len(list)])

\* _pattern_matches of ShallowHub and ShallowHubClient
EndsWithStar(pattern) == Len(pattern) > 0 /\ pattern[Len(pattern)] = "*"

StartsWith(topic, prefix) ==
    /\ Len(prefix) <= Len(topic)
    /\ SubSeq(topic, 1, Len(prefix)) = prefix

\* A matcher that takes every pattern for a prefix pattern.
PatternMatchesAsPrefix(pattern, topic) ==
    \/ pattern = topic
    \/ StartsWith(topic, SubSeq(pattern, 1, Len(pattern) - 1))

PatternMatches(pattern, topic) ==
    IF pattern = topic THEN TRUE
    ELSE IF EndsWithStar(pattern)
         THEN StartsWith(topic, SubSeq(pattern, 1, Len(pattern) - 1))
         ELSE FALSE

\* The entries of the lists of a dict whose pattern matches the topic, in
\* the order of `for pattern, list in d.items(): if matches: for e in list`.
RECURSIVE MatchingEntries(_, _)
MatchingEntries(d, topic) ==
    IF d = <<>> THEN <<>>
    ELSE (IF PatternMatches(d[1][1], topic) THEN d[1][2] ELSE <<>>)
         \o MatchingEntries(Tail(d), topic)

HubMessage(msg_type, data, client_id, message_id) ==
    [type |-> msg_type, data |-> data, client_id |-> client_id,
     message_id |-> message_id]


Get(rec, key, default) == IF key \in DOMAIN rec THEN rec[key] ELSE default

(***************************************************************************)
(* ShallowHub                                                              *)
(***************************************************************************)
InitShallow ==
    /\ api_registry = [p \in Paths |-> None]
    /\ subscriptions = <<>>
    /\ interceptors = <<>>
    \* create_node(hub, id) for every client: constructed and connected
    /\ clients = [c \in Clients |-> [registered |-> TRUE, active |-> TRUE]]
    /\ hub_queue = <<>>
    /\ hub_running = "set"
    /\ shutdown_at = 0
    /\ client_queue = [c \in Clients |-> <<>>]
    /\ connected = [c \in Clients |-> TRUE]
    /\ running = [c \in Clients |-> TRUE]
    /\ api_handlers = [c \in Clients |-> [p \in Paths |-> NoHandler]]
    /\ subscription_handlers = [c \in Clients |-> <<>>]
    /\ interceptor_handlers = [c \in Clients |-> <<>>]
    /\ pending_requests = [c \in Clients |-> {}]
    /\ response_event = [i \in Ids |-> FALSE]
    /\ response_dict = [i \in Ids |-> None]
    /\ pc = [c \in Clients |-> "idle"]
    /\ cur = [c \in Clients |-> 0]
    /\ next_id = 1
    /\ requests = [i \in Ids |-> None]
    /\ result = [i \in Ids |-> None]
    /\ hub_log = [i \in Ids |-> None]
    /\ invoked = [c \in Clients |-> <<>>]
    /\ discarded = [i \in Ids |-> None]

\* A hub whose messages overtake the ones already waiting in a client's queue.
SendMessageToClientAtHead(queues, client_id, message) ==
    IF clients[client_id].registered /\ clients[client_id].active
    THEN [queues EXCEPT ![client_id] = <<message>> \o @]
    ELSE queues

\* ShallowHub._send_message_to_client
SendMessageToClient(queues, client_id, message) ==
    IF clients[client_id].registered /\ clients[client_id].active
    THEN [queues EXCEPT ![client_id] = Append(@, message)]
    ELSE queues

\* A hub that answers without looking whether the client is still active.
SendResponseToInactiveToo(queues, client_id, message_id, response_data) ==
    [queues EXCEPT ![client_id] =
        Append(@, HubMessage(TYPE_API_RESPONSE, response_data, "hub", message_id))]

\* A hub that answers on the queue of every active client.
SendResponseToEveryClient(queues, client_id, message_id, response_data) ==
    [c \in Clients |->
        IF clients[c].registered /\ clients[c].active
        THEN Append(queues[c],
                 HubMessage(TYPE_API_RESPONSE, response_data, "hub", message_id))
        ELSE queues[c]]

\* ShallowHub._send_response_to_client
SendResponseToClient(queues, client_id, message_id, response_data) ==
    SendMessageToClient(queues, client_id,
        HubMessage(TYPE_API_RESPONSE, response_data, "hub", message_id))

\* self.manager.dict(): every call constructs a new, empty dictionary.
ManagerDict == <<>>

\* ShallowHub._store_request_origin: the dictionary written to.  It is the
\* temporary that self.manager.dict() returned; nothing keeps it.
StoreRequestOrigin(message_id, client_id) ==
    DictSet(ManagerDict, message_id, client_id)

\* ShallowHub._get_request_origin: .get on another new dictionary.
GetRequestOrigin(message_id) ==
    IF DictHas(ManagerDict, message_id)
    THEN DictGet(ManagerDict, message_id)
    ELSE NoClient

\* self.api_registry[api_data["path"]] = api_data
RegistryStore(registry, api_data) ==
    [registry EXCEPT ![api_data.path] = api_data]

\* self.<table>[pattern].append(entry); self.<table>[pattern] = sorted(...)
TableAdd(table, pattern, entry) ==
    LET list == IF DictHas(table, pattern) THEN DictGet(table, pattern) ELSE <<>>
    IN  DictSet(table, pattern, SortedByPriorityReverse(Append(list, entry)))

\* _run_hub: while self.running.is_set(): hub_queue.get, _process_hub_message.
\* A worker that had passed the test when the Event was cleared takes one
\* more message.
HubTakes(msg_type) ==
    /\ sys = "shallow"
    /\ hub_running # "cleared"
    /\ hub_queue # <<>>
    /\ Head(hub_queue).type = msg_type
    /\ hub_running' = IF hub_running = "set" THEN "set" ELSE "cleared"

client_side == <<connected, running, api_handlers, subscription_handlers,
                 interceptor_handlers, pending_requests, response_event,
                 response_dict, pc, cur, next_id, requests, result, invoked, discarded>>

hub_tables == <<api_registry, subscriptions, interceptors, clients>>

\* _process_hub_message, TYPE_REGISTER_API
HubRegisterApi ==
    /\ HubTakes(TYPE_REGISTER_API)
    /\ LET message == Head(hub_queue)
           api_data == message.data
       IN  /\ api_registry' = RegistryStore(api_registry, api_data)
           /\ client_queue' = SendResponseToClient(client_queue, message.client_id,
                  message.message_id,
                  [success |-> TRUE, api_path |-> api_data.path])
           /\ hub_log' = [hub_log EXCEPT ![message.message_id] =
                  [act |-> "registered", replaced |-> api_registry[api_data.path]]]
    /\ hub_queue' = Tail(hub_queue)
    /\ UNCHANGED <<outside_hub, subscriptions, interceptors, clients, client_side>>

\* _process_hub_message, TYPE_SUBSCRIBE
HubSubscribe ==
    /\ HubTakes(TYPE_SUBSCRIBE)
    /\ LET message == Head(hub_queue)
           sub_data == message.data
           subscription == [pattern |-> sub_data.pattern,
                            client_id |-> message.client_id,
                            subscription_id |-> sub_data.subscription_id,
                            priority |-> Get(sub_data, "priority", 0)]
       IN  /\ subscriptions' = TableAdd(subscriptions, sub_data.pattern, subscription)
           /\ client_queue' = SendResponseToClient(client_queue, message.client_id,
                  message.message_id,
                  [success |-> TRUE, subscription_id |-> sub_data.subscription_id])
           /\ hub_log' = [hub_log EXCEPT ![message.message_id] = [act |-> "subscribed"]]
    /\ hub_queue' = Tail(hub_queue)
    /\ UNCHANGED <<outside_hub, api_registry, interceptors, clients, client_side>>

\* _process_hub_message, TYPE_REGISTER_INTERCEPTOR
HubRegisterInterceptor ==
    /\ HubTakes(TYPE_REGISTER_INTERCEPTOR)
    /\ LET message == Head(hub_queue)
           int_data == message.data
           interceptor == [pattern |-> int_data.pattern,
                           client_id |-> message.client_id,
                           interceptor_id |-> int_data.interceptor_id,
                           priority |-> Get(int_data, "priority", 0)]
       IN  /\ interceptors' = TableAdd(interceptors, int_data.pattern, interceptor)
           /\ client_queue' = SendResponseToClient(client_queue, message.client_id,
                  message.message_id,
                  [success |-> TRUE, interceptor_id |-> int_data.interceptor_id])
           /\ hub_log' = [hub_log EXCEPT ![message.message_id] = [act |-> "interceptor"]]
    /\ hub_queue' = Tail(hub_queue)
    /\ UNCHANGED <<outside_hub, api_registry, subscriptions, clients, client_side>>

\* _process_hub_message, TYPE_API_REQUEST
HubApiRequest ==
    /\ HubTakes(TYPE_API_REQUEST)
    /\ LET message == Head(hub_queue)
           request_data == message.data
           api_path == request_data.path
           api_entry == api_registry[api_path]
       IN  IF api_entry # None
           THEN \* forward to the handler's client; the origin is written to
                \* StoreRequestOrigin(message.message_id, message.client_id),
                \* a dictionary no later call reads
                /\ client_queue' = SendMessageToClient(client_queue, api_entry.client_id,
                       HubMessage(TYPE_API_REQUEST, request_data,
                                  api_entry.client_id, message.message_id))
                /\ hub_log' = [hub_log EXCEPT ![message.message_id] =
                       [act |-> "forwarded", owner |-> api_entry.client_id,
                        sent |-> clients[api_entry.client_id].active,
                        origin |-> GetRequestOrigin(message.message_id)]]
           ELSE /\ client_queue' = SendResponseToClient(client_queue, message.client_id,
                       message.message_id,
                       [data |-> NoData, metadata |-> "API not found",
                        status |-> "not_found"])
                /\ hub_log' = [hub_log EXCEPT ![message.message_id] =
                       [act |-> "not_found"]]
    /\ hub_queue' = Tail(hub_queue)
    /\ UNCHANGED <<outside_hub, api_registry, subscriptions, interceptors, clients, client_side>>

\* _process_hub_message, TYPE_API_RESPONSE
HubApiResponse ==
    /\ HubTakes(TYPE_API_RESPONSE)
    /\ LET message == Head(hub_queue)
           original_client == GetRequestOrigin(message.message_id)
       IN  /\ client_queue' =
                  IF original_client # NoClient
                  THEN SendResponseToClient(client_queue, original_client,
                           message.message_id, message.data)
                  ELSE client_queue
           /\ hub_log' = [hub_log EXCEPT ![message.message_id] =
                  [@ EXCEPT !.act = "answered"]]
    /\ hub_queue' = Tail(hub_queue)
    /\ UNCHANGED <<outside_hub, api_registry, subscriptions, interceptors, clients, client_side>>

\* for sub in <matching subscriptions>: self._send_message_to_client(...)
RECURSIVE FanOut(_, _, _)
FanOut(queues, subs, message_data) ==
    IF subs = <<>> THEN queues
    ELSE FanOut(SendMessageToClient(queues, subs[1].client_id,
                    HubMessage(TYPE_PUBLISH, message_data, subs[1].client_id, FreshId)),
                Tail(subs), message_data)

\* _process_hub_message, TYPE_PUBLISH.  The first matching interceptor makes
\* the hub evaluate HubMessage.TYPE_INTERCEPT, an attribute the class does
\* not have: AttributeError leaves _process_hub_message there and _run_hub
\* logs it.  Nothing is sent, neither to an interceptor, a subscriber nor
\* the publisher.
HubPublish ==
    /\ HubTakes(TYPE_PUBLISH)
    /\ LET message == Head(hub_queue)
           message_data == message.data
           topic == message_data.topic
           ints == MatchingEntries(interceptors, topic)
           subs == MatchingEntries(subscriptions, topic)
       IN  IF ints # <<>>
           THEN /\ client_queue' = client_queue
                /\ hub_log' = [hub_log EXCEPT ![message.message_id] =
                       [act |-> "raised", ints |-> ints, subs |-> subs]]
           ELSE /\ client_queue' = SendResponseToClient(
                       FanOut(client_queue, subs, message_data),
                       message.client_id, message.message_id,
                       [success |-> TRUE, intercepted |-> FALSE])
                /\ hub_log' = [hub_log EXCEPT ![message.message_id] =
                       [act |-> "fanout", ints |-> ints, subs |-> subs]]
    /\ hub_queue' = Tail(hub_queue)
    /\ UNCHANGED <<outside_hub, api_registry, subscriptions, interceptors, clients, client_side>>


\* _process_hub_message, TYPE_SHUTDOWN: self.running.clear(); return
HubShutdown ==
    /\ HubTakes(TYPE_SHUTDOWN)
    /\ hub_queue' = Tail(hub_queue)
    /\ UNCHANGED <<outside_hub, hub_tables, client_queue, client_side, hub_log>>

\* ShallowHub.shutdown, called by the thread that owns the hub:
\* self.running.clear(), then the shutdown message is put on the hub queue.
\* in_get: the hub worker had passed `while self.running.is_set()`.
Shutdown(in_get) ==
    /\ sys = "shallow"
    /\ hub_running = "set"
    /\ hub_running' = IF in_get THEN "cleared_in_get" ELSE "cleared"
    /\ shutdown_at' = next_id
    /\ hub_queue' = Append(hub_queue,
           HubMessage(TYPE_SHUTDOWN, [reason |-> "shutdown requested"], "hub", FreshId))
    /\ UNCHANGED <<sys, seq_vars, hub_tables, client_queue, client_side, hub_log>>

(***************************************************************************)
(* ShallowHubClient: the listener thread                                   *)
(***************************************************************************)
\* _message_listener: while self.running and self.connected: get, process
ListenerTakes(c, msg_type) ==
    /\ sys = "shallow"
    /\ running[c] /\ connected[c]
    /\ client_queue[c] # <<>>
    /\ Head(client_queue[c]).type = msg_type

\* handler(request) inside try/except of _process_client_message: the
\* handler's ApiResponse.to_dict(), or the ERROR response built from the
\* exception it raised
HandlerResponse(c, handler, request_data) ==
    IF handler = "raise"
    THEN [data |-> NoData, metadata |-> "handler raised", status |-> "error"]
    ELSE [data |-> <<c, request_data.path>>, metadata |-> "", status |-> "success"]

\* _process_client_message, TYPE_API_REQUEST
ClientApiRequest(c) ==
    /\ ListenerTakes(c, TYPE_API_REQUEST)
    /\ LET message == Head(client_queue[c])
           request_data == message.data
           handler == api_handlers[c][request_data.path]
           response == IF handler # NoHandler
                       THEN HandlerResponse(c, handler, request_data)
                       ELSE [data |-> NoData, metadata |-> "API not registered",
                             status |-> "not_found"]
       IN  \* _send_api_response -> _send_message
           hub_queue' = Append(hub_queue,
               HubMessage(TYPE_API_RESPONSE, response, c, message.message_id))
    /\ client_queue' = [client_queue EXCEPT ![c] = Tail(@)]
    /\ UNCHANGED <<outside_shallow, hub_tables, connected, running, api_handlers,
                   subscription_handlers, interceptor_handlers, pending_requests,
                   response_event, response_dict, pc, cur, next_id, requests,
                   result, hub_log, invoked, discarded>>

\* A listener that hands a response nobody waits for to whoever waits.
ResponseTargetAnyPending(pending, message_id) ==
    IF message_id \in pending THEN {message_id} ELSE pending

\* `if message.message_id in self.pending_requests`: the pending entries a
\* response is handed to
ResponseTarget(pending, message_id) ==
    IF message_id \in pending THEN {message_id} ELSE {}

\* _process_client_message, TYPE_API_RESPONSE (under request_lock)
ClientApiResponse(c) ==
    /\ ListenerTakes(c, TYPE_API_RESPONSE)
    /\ LET message == Head(client_queue[c])
           target == ResponseTarget(pending_requests[c], message.message_id)
       IN  /\ response_dict' = [i \in Ids |->
                  IF i \in target
                  THEN [data |-> message.data, message_id |-> message.message_id,
                        n |-> IF response_dict[i] = None THEN 1
                              ELSE response_dict[i].n + 1]
                  ELSE response_dict[i]]
           /\ response_event' = [i \in Ids |-> response_event[i] \/ i \in target]
           /\ pending_requests' = [pending_requests EXCEPT ![c] = @ \ target]
           /\ discarded' =
                  IF target = {}
                  THEN [discarded EXCEPT ![message.message_id] =
                           [late |-> result[message.message_id] # None,
                            waiting |-> pending_requests[c]]]
                  ELSE discarded
    /\ client_queue' = [client_queue EXCEPT ![c] = Tail(@)]
    /\ UNCHANGED <<outside_shallow, hub_tables, hub_queue, connected, running, api_handlers,
                   subscription_handlers, interceptor_handlers, pc, cur, next_id,
                   requests, result, hub_log, invoked>>

\* ShallowHubClient._pattern_matches
ClientPatternMatches(pattern, topic) ==
    IF pattern = topic THEN TRUE
    ELSE IF EndsWithStar(pattern)
         THEN StartsWith(topic, SubSeq(pattern, 1, Len(pattern) - 1))
         ELSE FALSE

\* for pattern, handlers in self.subscription_handlers.items():
\*     if matches: for handler in sorted(handlers, priority, reverse=True)
RECURSIVE MatchingHandlers(_, _)
MatchingHandlers(d, topic) ==
    IF d = <<>> THEN <<>>
    ELSE (IF ClientPatternMatches(d[1][1], topic)
          THEN SortedByPriorityReverse(d[1][2]) ELSE <<>>)
         \o MatchingHandlers(Tail(d), topic)

\* _process_client_message, TYPE_PUBLISH
ClientPublish(c) ==
    /\ ListenerTakes(c, TYPE_PUBLISH)
    /\ LET message == Head(client_queue[c])
           message_data == message.data
           handlers == MatchingHandlers(subscription_handlers[c], message_data.topic)
       IN  invoked' = [invoked EXCEPT ![c] = @ \o
               [i \in DOMAIN handlers |->
                   [sub |-> handlers[i].id, pub |-> message_data.data]]]
    /\ client_queue' = [client_queue EXCEPT ![c] = Tail(@)]
    /\ UNCHANGED <<outside_shallow, hub_tables, hub_queue, connected, running, api_handlers,
                   subscription_handlers, interceptor_handlers, pending_requests,
                   response_event, response_dict, pc, cur, next_id, requests,
                   result, hub_log, discarded>>

(***************************************************************************)
(* ShallowHubClient: the application thread                                *)
(***************************************************************************)
\* What an operation hands back to its caller: from the response dictionary
\* (outcome "response"), or from the except branch around
\* _send_request_and_wait ("timeout": TimeoutError, "not_connected":
\* ConnectionError).
OpResult(kind, id, outcome, response, from) ==
    [kind |-> kind, outcome |-> outcome, from |-> from, value |->
        CASE kind = "register_api" ->
                 [ok |-> IF outcome = "response"
                         THEN Get(response, "success", FALSE) ELSE FALSE]
          [] kind = "call_api" ->
                 IF outcome = "response"
                 THEN [data |-> Get(response, "data", NoData),
                       metadata |-> Get(response, "metadata", ""),
                       status |-> Get(response, "status", "error")]
                 ELSE [data |-> NoData, metadata |-> outcome, status |-> "error"]
          [] kind = "publish" ->
                 [result |-> IF outcome = "response"
                                /\ Get(response, "intercepted", FALSE)
                             THEN Get(response, "result", None)
                             ELSE None]
          [] OTHER -> [id |-> id]]

\* A _send_message that would not test self.connected
SendWithoutConnectionTest(c, msg_type, data, req) ==
    /\ sys = "shallow"
    /\ pc[c] = "idle"
    /\ next_id \in Ids
    /\ requests' = [requests EXCEPT ![next_id] = req]
    /\ hub_queue' = Append(hub_queue, HubMessage(msg_type, data, c, next_id))
    /\ pc' = [pc EXCEPT ![c] = "sent"]
    /\ cur' = [cur EXCEPT ![c] = next_id]
    /\ result' = result
    /\ next_id' = next_id + 1
    /\ UNCHANGED <<outside_shallow, hub_tables, client_queue, connected, running,
                   pending_requests, response_event, response_dict, hub_log,
                   invoked, discarded>>

\* _send_message of an operation's first message, and what follows: the
\* message is on the hub queue and the caller goes on to register its
\* pending entry, or ConnectionError ends the operation.
Send(c, msg_type, data, req) ==
    /\ sys = "shallow"
    /\ pc[c] = "idle"
    /\ next_id \in Ids
    /\ requests' = [requests EXCEPT ![next_id] = req]
    /\ IF connected[c]
       THEN /\ hub_queue' = Append(hub_queue, HubMessage(msg_type, data, c, next_id))
            /\ pc' = [pc EXCEPT ![c] = "sent"]
            /\ cur' = [cur EXCEPT ![c] = next_id]
            /\ result' = result
       ELSE /\ result' = [result EXCEPT ![next_id] =
                   OpResult(req.kind, next_id, "not_connected", None, FreshId)]
            /\ UNCHANGED <<hub_queue, pc, cur>>
    /\ next_id' = next_id + 1
    /\ UNCHANGED <<outside_shallow, hub_tables, client_queue, connected, running,
                   pending_requests, response_event, response_dict, hub_log,
                   invoked, discarded>>

\* ShallowHubClient.register_api
RegisterApi(c, path, handler) ==
    /\ api_handlers' = [api_handlers EXCEPT ![c][path] = handler]
    /\ Send(c, TYPE_REGISTER_API, [path |-> path, client_id |-> c],
            [kind |-> "register_api", client |-> c, path |-> path,
             handler |-> handler])
    /\ UNCHANGED <<subscription_handlers, interceptor_handlers>>

\* ShallowHubClient.call_api
CallApi(c, path) ==
    /\ Send(c, TYPE_API_REQUEST, [path |-> path, sender_id |-> c],
            [kind |-> "call_api", client |-> c, path |-> path])
    /\ UNCHANGED <<api_handlers, subscription_handlers, interceptor_handlers>>

\* self.<handlers>[pattern].append({...}); .sort(priority, reverse=True)
HandlersAdd(table, pattern, entry) ==
    LET list == IF DictHas(table, pattern) THEN DictGet(table, pattern) ELSE <<>>
    IN  DictSet(table, pattern, SortedByPriorityReverse(Append(list, entry)))

\* ShallowHubClient.subscribe.  The subscription's uuid and the message's uuid
\* are two fresh values; the model writes both as next_id.
Subscribe(c, pattern, priority) ==
    /\ subscription_handlers' = [subscription_handlers EXCEPT ![c] =
           HandlersAdd(@, pattern, [id |-> next_id, priority |-> priority])]
    /\ Send(c, TYPE_SUBSCRIBE,
            [pattern |-> pattern, subscription_id |-> next_id, priority |-> priority],
            [kind |-> "subscribe", client |-> c, pattern |-> pattern,
             priority |-> priority])
    /\ UNCHANGED <<api_handlers, interceptor_handlers>>

\* ShallowHubClient.register_interceptor
RegisterInterceptor(c, pattern, priority, handler) ==
    /\ interceptor_handlers' = [interceptor_handlers EXCEPT ![c] =
           HandlersAdd(@, pattern,
               [id |-> next_id, priority |-> priority, callback |-> handler])]
    /\ Send(c, TYPE_REGISTER_INTERCEPTOR,
            [pattern |-> pattern, interceptor_id |-> next_id, priority |-> priority],
            [kind |-> "register_interceptor", client |-> c, pattern |-> pattern,
             priority |-> priority, handler |-> handler])
    /\ UNCHANGED <<api_handlers, subscription_handlers>>

\* ShallowHubClient.publish
Publish(c, topic) ==
    /\ Send(c, TYPE_PUBLISH, [topic |-> topic, data |-> next_id, sender_id |-> c],
            [kind |-> "publish", client |-> c, topic |-> topic])
    /\ UNCHANGED <<api_handlers, subscription_handlers, interceptor_handlers>>

app_frame == <<outside_shallow, hub_tables, hub_queue, client_queue, connected, running,
               api_handlers, subscription_handlers, interceptor_handlers,
               next_id, requests, hub_log, invoked, discarded>>

\* _send_request_and_wait: self.pending_requests[message_id] = (event, dict)
StorePending(c) ==
    /\ sys = "shallow"
    /\ pc[c] = "sent"
    /\ pending_requests' = [pending_requests EXCEPT ![c] = @ \cup {cur[c]}]
    /\ pc' = [pc EXCEPT ![c] = "waiting"]
    /\ UNCHANGED <<app_frame, response_event, response_dict, cur, result>>

\* _send_request_and_wait: response_event.wait(timeout) returned True
Return(c) ==
    /\ sys = "shallow"
    /\ pc[c] = "waiting"
    /\ response_event[cur[c]]
    /\ result' = [result EXCEPT ![cur[c]] =
           OpResult(requests[cur[c]].kind, cur[c], "response",
                    response_dict[cur[c]].data, response_dict[cur[c]].message_id)]
    /\ pc' = [pc EXCEPT ![c] = "idle"]
    /\ UNCHANGED <<app_frame, pending_requests, response_event, response_dict, cur>>

\* _send_request_and_wait: the deadline passed with the event not set
Expire(c) ==
    /\ sys = "shallow"
    /\ pc[c] = "waiting"
    /\ ~response_event[cur[c]]
    /\ pc' = [pc EXCEPT ![c] = "expired"]
    /\ UNCHANGED <<app_frame, pending_requests, response_event, response_dict,
                   cur, result>>

\* _send_request_and_wait: del self.pending_requests[message_id] if it is
\* there; raise TimeoutError
TimeoutError(c) ==
    /\ sys = "shallow"
    /\ pc[c] = "expired"
    /\ pending_requests' = [pending_requests EXCEPT ![c] = @ \ {cur[c]}]
    /\ result' = [result EXCEPT ![cur[c]] =
           OpResult(requests[cur[c]].kind, cur[c], "timeout", None, FreshId)]
    /\ pc' = [pc EXCEPT ![c] = "idle"]
    /\ UNCHANGED <<app_frame, response_event, response_dict, cur>>

\* ShallowHubClient.connect, with ShallowHub.register_client
Connect(c) ==
    /\ sys = "shallow"
    /\ pc[c] = "idle"
    /\ ~connected[c]
    /\ clients' = IF clients[c].registered THEN clients
                  ELSE [clients EXCEPT ![c] = [registered |-> TRUE, active |-> TRUE]]
    /\ connected' = [connected EXCEPT ![c] = TRUE]
    /\ UNCHANGED <<outside_shallow, api_registry, subscriptions, interceptors, hub_queue,
                   client_queue, running, api_handlers, subscription_handlers,
                   interceptor_handlers, pending_requests, response_event,
                   response_dict, pc, cur, next_id, requests, result, hub_log,
                   invoked, discarded>>

\* ShallowHubClient.disconnect, with ShallowHub.unregister_client
DisconnectClient(c) ==
    /\ sys = "shallow"
    /\ connected[c]
    /\ running' = [running EXCEPT ![c] = FALSE]
    /\ clients' = IF clients[c].registered
                  THEN [clients EXCEPT ![c].active = FALSE] ELSE clients
    /\ connected' = [connected EXCEPT ![c] = FALSE]
    /\ UNCHANGED <<outside_shallow, api_registry, subscriptions, interceptors, hub_queue,
                   client_queue, api_handlers, subscription_handlers,
                   interceptor_handlers, pending_requests, response_event,
                   response_dict, pc, cur, next_id, requests, result, hub_log,
                   invoked, discarded>>

\* disconnect called by the thread that makes the client's calls
Disconnect(c) == pc[c] = "idle" /\ DisconnectClient(c)

\* disconnect called by another thread while a call of the client is under
\* way in _send_request_and_wait
DisconnectDuringCall(c) == pc[c] \in {"sent", "waiting"} /\ DisconnectClient(c)

(***************************************************************************)
(* The sequential hubs: one operation per step                             *)
(***************************************************************************)
SeqStep(mode) ==
    /\ sys = mode
    /\ ops < MaxOps
    /\ ops' = ops + 1
    /\ UNCHANGED <<sys, shallow_vars, net_vars, apart_vars>>

SeqOp(mode) == SeqStep(mode) /\ UNCHANGED scope_vars

\* A metadata dict: a set of <<key, value>>
MetaHas(metadata, key) == \E kv \in metadata : kv[1] = key

MetaGet(metadata, key) == (CHOOSE kv \in metadata : kv[1] = key)[2]

\* Edit distance of two paths of one segment
RECURSIVE EditDistance(_, _)
EditDistance(a, b) ==
    IF a = <<>> THEN Len(b)
    ELSE IF b = <<>> THEN Len(a)
    ELSE LET substitute == EditDistance(Tail(a), Tail(b))
                              + (IF Head(a) = Head(b) THEN 0 ELSE 1)
             delete == EditDistance(Tail(a), b) + 1
             insert == EditDistance(a, Tail(b)) + 1
         IN  IF substitute <= delete /\ substitute <= insert THEN substitute
             ELSE IF delete <= insert THEN delete ELSE insert

\* The threshold 0.8 as a fraction
ThresholdNumerator == 4
ThresholdDenominator == 5

\* 1 - editDistance/max(len) >= threshold, for paths of one segment
ScoresAtLeastThreshold(a, b) ==
    LET longest == IF Len(a) >= Len(b) THEN Len(a) ELSE Len(b)
    IN  ThresholdDenominator * (longest - EditDistance(a, b))
            >= ThresholdNumerator * longest

(***************************************************************************)
(* HubConnector (node_library.py)                                          *)
(***************************************************************************)
NodePaths == {<<"t", "a">>, <<"t", "b">>}
NodeMetadata == {{}, {<<"fallback", <<"t", "b">>>>}}

InitConnector ==
    /\ local_registry = <<>>
    /\ local_subscriptions = <<>>
    /\ local_interceptors = <<>>
    /\ local_method_interceptors = <<>>

\* HubConnector.register_api
ConnectorRegisterApi(path, handler, metadata) ==
    /\ SeqOp("connector")
    /\ local_registry' = DictSet(local_registry, path,
           [handler |-> [id |-> ops + 1, kind |-> handler], metadata |-> metadata])
    /\ last' = [op |-> "register_api", path |-> path,
                replaced |-> IF DictHas(local_registry, path)
                             THEN DictGet(local_registry, path) ELSE None]
    /\ UNCHANGED <<local_subscriptions, local_interceptors, local_method_interceptors,
                   enhanced_vars>>

\* A hub that labels the answer of a registered handler as intercepted.
CallHandlerLabelsIntercepted(handler, request) ==
    IF handler.kind \in {"absent", "raise"}
    THEN [calls |-> <<>>, raised |-> "handler", response |-> None]
    ELSE [calls |-> <<handler.id>>, raised |-> "",
          response |-> [data |-> <<handler.id, request.path>>,
                        metadata |-> request.metadata, status |-> "intercepted"]]

\* api['handler'](request): an ApiResponse, or the exception the handler
\* raised (the TypeError of calling None), which handle_request does not catch
CallHandler(handler, request) ==
    IF handler.kind = "absent"
    THEN [calls |-> <<>>, raised |-> "TypeError", response |-> None]
    ELSE IF handler.kind = "raise"
    THEN [calls |-> <<handler.id>>, raised |-> "handler", response |-> None]
    ELSE [calls |-> <<handler.id>>, raised |-> "",
          response |-> [data |-> <<handler.id, request.path>>,
                        metadata |-> request.metadata, status |-> "success"]]

\* The first entry of `for path, entry in self._local_registry.items()` with
\* 'fallback' in entry['metadata'] and entry['metadata']['fallback'] == path
FallbackEntries(registry, path) ==
    {i \in DOMAIN registry :
        /\ MetaHas(registry[i][2].metadata, "fallback")
        /\ MetaGet(registry[i][2].metadata, "fallback") = path}

\* HubConnector.handle_request; depth counts the nested calls
RECURSIVE HandleRequest(_, _, _)
HandleRequest(registry, request, depth) ==
    IF depth > RecursionLimit
    THEN [calls |-> <<>>, raised |-> "RecursionError", response |-> None]
    ELSE IF DictHas(registry, request.path)
    THEN CallHandler(DictGet(registry, request.path).handler, request)
    ELSE IF FallbackEntries(registry, request.path) # {}
    THEN LET i == CHOOSE j \in FallbackEntries(registry, request.path) :
                      \A k \in FallbackEntries(registry, request.path) : j <= k
             entry == registry[i][2]
         IN  HandleRequest(registry,
                 [path |-> MetaGet(entry.metadata, "fallback"),
                  metadata |-> request.metadata
                               \cup {<<"original_path", request.path>>}],
                 depth + 1)
    ELSE [calls |-> <<>>, raised |-> "",
          response |-> [data |-> NoData, metadata |-> {}, status |-> "not_found"]]

\* Node.call_api -> HubConnector.handle_request
ConnectorHandleRequest(path) ==
    /\ SeqOp("connector")
    /\ last' = [op |-> "handle_request", path |-> path,
                outcome |-> HandleRequest(local_registry,
                                [path |-> path, metadata |-> {}], 1)]
    /\ UNCHANGED <<node_vars, enhanced_vars>>

\* self.<table>[pattern].append(entry); self.<table>[pattern].sort(
\*     key=lambda x: x['priority'], reverse=True)
LocalAdd(table, pattern, entry) ==
    LET list == IF DictHas(table, pattern) THEN DictGet(table, pattern) ELSE <<>>
    IN  DictSet(table, pattern, SortedByPriorityReverse(Append(list, entry)))

\* HubConnector.subscribe
ConnectorSubscribe(pattern, priority, callback) ==
    /\ SeqOp("connector")
    /\ local_subscriptions' = LocalAdd(local_subscriptions, pattern,
           [callback |-> [id |-> ops + 1, kind |-> callback], priority |-> priority])
    /\ last' = [op |-> "subscribe", pattern |-> pattern, priority |-> priority]
    /\ UNCHANGED <<local_registry, local_interceptors, local_method_interceptors,
                   enhanced_vars>>

\* HubConnector.register_interceptor
ConnectorRegisterInterceptor(pattern, priority, handler) ==
    /\ SeqOp("connector")
    /\ local_interceptors' = LocalAdd(local_interceptors, pattern,
           [handler |-> [id |-> ops + 1, kind |-> handler], priority |-> priority])
    /\ last' = [op |-> "register_interceptor", pattern |-> pattern,
                priority |-> priority]
    /\ UNCHANGED <<local_registry, local_subscriptions, local_method_interceptors,
                   enhanced_vars>>

\* HubConnector._pattern_matches
ConnectorPatternMatches(pattern, topic) ==
    \/ pattern = topic
    \/ /\ EndsWithStar(pattern)
       /\ StartsWith(topic, SubSeq(pattern, 1, Len(pattern) - 1))

\* for pattern, list in table.items(): if matches: for entry in list
RECURSIVE LocalMatching(_, _)
LocalMatching(table, topic) ==
    IF table = <<>> THEN <<>>
    ELSE (IF ConnectorPatternMatches(table[1][1], topic) THEN table[1][2] ELSE <<>>)
         \o LocalMatching(Tail(table), topic)

\* interceptor['handler'](message): None, or a value of the interceptor's own
InterceptorReturns(handler) ==
    IF handler.kind = "value" THEN [by |-> handler.id, role |-> "interceptor"]
    ELSE None

\* subscriber['callback'](message): a value the loop drops
CallbackReturns(callback) == [by |-> callback.id, role |-> "subscriber"]

\* A loop that calls every matching interceptor and keeps the last result.
InterceptorCallsAll(entries) == entries

\* The interceptors the loop of publish calls: every one up to and including
\* the first whose result is not None
RECURSIVE InterceptorCalls(_)
InterceptorCalls(entries) ==
    IF entries = <<>> THEN <<>>
    ELSE IF InterceptorReturns(entries[1].handler) # None THEN <<entries[1]>>
    ELSE <<entries[1]>> \o InterceptorCalls(Tail(entries))

\* The subscribers the loop of publish calls: every one up to and including
\* the first whose callback raises, since the loop has no try
RECURSIVE CallbacksRun(_)
CallbacksRun(entries) ==
    IF entries = <<>> THEN <<>>
    ELSE IF entries[1].callback.kind = "raises" THEN <<entries[1]>>
    ELSE <<entries[1]>> \o CallbacksRun(Tail(entries))

\* Node.publish -> HubConnector.publish.  "raised": an exception of a
\* callback left publish; "result" is what publish returns otherwise.
ConnectorPublish(topic) ==
    /\ SeqOp("connector")
    /\ LET calls == InterceptorCalls(LocalMatching(local_interceptors, topic))
           returned == IF calls = <<>> THEN None
                       ELSE InterceptorReturns(calls[Len(calls)].handler)
           notified == IF returned # None THEN <<>>
                       ELSE CallbacksRun(LocalMatching(local_subscriptions, topic))
       IN  last' = [op |-> "publish", topic |-> topic,
                    interceptor_calls |-> calls,
                    subscriber_calls |-> notified,
                    dropped |-> [i \in DOMAIN notified |->
                                    IF notified[i].callback.kind = "raises" THEN None
                                    ELSE CallbackReturns(notified[i].callback)],
                    raised |-> \E i \in DOMAIN notified :
                                  notified[i].callback.kind = "raises",
                    result |-> returned]
    /\ UNCHANGED <<node_vars, enhanced_vars>>

(***************************************************************************)
(* EnhancedThreadHub (python-message-interception.py)                      *)
(***************************************************************************)
MethodKeys == {<<"FileSearcher", "search">>}

InitEnhanced ==
    /\ message_interceptors = <<>>
    /\ method_interceptors = <<>>

\* list.sort(key=lambda x: -x[0]): a stable sort, ascending in the key
InsertByNegatedPriority(sorted, e) ==
    LET k == Cardinality({i \in DOMAIN sorted : -sorted[i][1] <= -e[1]})
    IN  SubSeq(sorted, 1, k) \o <<e>> \o SubSeq(sorted, k + 1, Len(sorted))

RECURSIVE SortedByNegatedPriority(_)
SortedByNegatedPriority(list) ==
    IF list = <<>> THEN <<>>
    ELSE InsertByNegatedPriority(
             SortedByNegatedPriority(SubSeq(list, 1, Len(list) - 1)),
             list[Len(list)])

\* self.<table>[key].append((priority, interceptor)); .sort(key=lambda x: -x[0])
EnhancedAdd(table, key, entry) ==
    LET list == IF DictHas(table, key) THEN DictGet(table, key) ELSE <<>>
    IN  DictSet(table, key, SortedByNegatedPriority(Append(list, entry)))

\* InterceptorEntry(handler, priority) / MethodInterceptorEntry(handler, priority)
InterceptorEntry(handler, priority, id) ==
    [handler |-> handler, priority |-> priority, id |-> id]

\* EnhancedThreadHub.register_interceptor
EnhancedRegisterInterceptor(topic, handler, priority) ==
    /\ SeqOp("enhanced")
    /\ message_interceptors' = EnhancedAdd(message_interceptors, topic,
           <<priority, InterceptorEntry(handler, priority, ops + 1)>>)
    /\ last' = [op |-> "register_interceptor", key |-> topic, priority |-> priority]
    /\ UNCHANGED <<node_vars, method_interceptors>>

\* EnhancedThreadHub.register_method_interceptor
EnhancedRegisterMethodInterceptor(key, handler, priority) ==
    /\ SeqOp("enhanced")
    /\ method_interceptors' = EnhancedAdd(method_interceptors, key,
           <<priority, InterceptorEntry(handler, priority, ops + 1)>>)
    /\ last' = [op |-> "register_method_interceptor", key |-> key,
                priority |-> priority]
    /\ UNCHANGED <<node_vars, message_interceptors>>

\* EnhancedThreadHub.publish_message: the lists it walks, in its order: the
\* list stored under the topic itself, then the list of every key that ends
\* with '*' and whose prefix the topic starts with
RECURSIVE WildcardLists(_, _)
WildcardLists(table, topic) ==
    IF table = <<>> THEN <<>>
    ELSE (IF /\ EndsWithStar(table[1][1])
             /\ StartsWith(topic, SubSeq(table[1][1], 1, Len(table[1][1]) - 1))
          THEN table[1][2] ELSE <<>>)
         \o WildcardLists(Tail(table), topic)

PublishMessageDispatch(table, topic) ==
    (IF DictHas(table, topic) THEN DictGet(table, topic) ELSE <<>>)
    \o WildcardLists(table, topic)

\* interceptor.handler(message) for each (priority, interceptor) of the
\* lists, until one returns a value that is not None
RECURSIVE HandlerCalls(_)
HandlerCalls(entries) ==
    IF entries = <<>> THEN <<>>
    ELSE IF entries[1][2].handler = "value" THEN <<entries[1][2]>>
    ELSE <<entries[1][2]>> \o HandlerCalls(Tail(entries))

\* EnhancedThreadHub.publish_message, of a hub whose parent_hub is None as
\* __init__ leaves it
EnhancedPublishMessage(topic) ==
    /\ SeqOp("enhanced")
    /\ LET calls == HandlerCalls(PublishMessageDispatch(message_interceptors, topic))
       IN  last' = [op |-> "publish_message", topic |-> topic,
                    calls |-> [i \in DOMAIN calls |-> calls[i].id],
                    result |-> IF calls # <<>> /\ calls[Len(calls)].handler = "value"
                               THEN [by |-> calls[Len(calls)].id, role |-> "interceptor"]
                               ELSE None]
    /\ UNCHANGED <<node_vars, enhanced_vars>>

(***************************************************************************)
(* The Hub of the system pseudocode (complete-system-pseudocode.py)        *)
(***************************************************************************)
\* A thread-scope hub T and the process-scope hub P it is connected to
Scopes == {"T", "P"}

NoHub == "None"

\* hub.parent_hub
ParentHub(hub) == IF hub = "T" THEN "P" ELSE NoHub

ScopePaths == {<<"i", "t", "e", "m", "s">>, <<"i", "t", "e", "m">>}

ScopeMetadata == {{}, {<<"fallback", <<"i", "t", "e", "m", "s">>>>}}

\* A handler, or null
ScopeHandlerKinds == {"ok", "absent"}

InitScope ==
    /\ scope_registry = [hub \in Scopes |-> [path \in ScopePaths |-> None]]
    /\ scope_interceptors = [hub \in Scopes |-> [path \in ScopePaths |-> <<>>]]

\* hub.registry.add(path, handler, metadata)
RegistryAdd(registry, hub, path, handler, metadata) ==
    [registry EXCEPT ![hub][path] = [handler |-> handler, metadata |-> metadata]]

\* hub.parent_hub.propagate_registration(path, null, metadata): the parent
\* keeps the notice, path and metadata without a handler, unless it has a
\* registration of its own for the path
PropagateRegistration(registry, hub, path, metadata) ==
    IF registry[hub][path] = None
    THEN RegistryAdd(registry, hub, path, "absent", metadata)
    ELSE registry

\* register_api(hub, path, handler, metadata)
ScopeRegisterApi(hub, path, handler, metadata) ==
    /\ SeqStep("scope")
    /\ scope_registry' =
           LET added == RegistryAdd(scope_registry, hub, path, handler, metadata)
           IN  IF ParentHub(hub) # NoHub
               THEN PropagateRegistration(added, ParentHub(hub), path, metadata)
               ELSE added
    /\ last' = [op |-> "register_api", hub |-> hub, path |-> path]
    /\ UNCHANGED <<node_vars, enhanced_vars, scope_interceptors>>

\* intercept_method(hub, ..., handler, priority): add to the list of the key
\* and sort_by_priority
ScopeIntercept(hub, key, handler, priority) ==
    /\ SeqStep("scope")
    /\ scope_interceptors' = [scope_interceptors EXCEPT ![hub][key] =
           SortedByPriorityReverse(Append(@,
               [handler |-> [id |-> ops + 1, kind |-> handler],
                priority |-> priority]))]
    /\ last' = [op |-> "intercept", hub |-> hub, key |-> key]
    /\ UNCHANGED <<node_vars, enhanced_vars, scope_registry>>

\* find_interceptor(hub, request): the interceptors of the hub whose key is
\* the request's path, up to the first that returns a value
FindInterceptor(hub, request) ==
    InterceptorCalls(scope_interceptors[hub][request.path])

Intercepts(hub, request) ==
    /\ FindInterceptor(hub, request) # <<>>
    /\ InterceptorReturns(
           FindInterceptor(hub, request)[Len(FindInterceptor(hub, request))].handler)
           # None

\* hub.registry.lookup(request.path): a registration that has a handler
RegistryLookup(hub, path) ==
    /\ scope_registry[hub][path] # None
    /\ scope_registry[hub][path].handler # "absent"

\* hub.registry.lookup_fallback(request.path): the fallback that the
\* registration of the path names
HasFallback(hub, path) ==
    /\ scope_registry[hub][path] # None
    /\ MetaHas(scope_registry[hub][path].metadata, "fallback")

LookupFallback(hub, path) == MetaGet(scope_registry[hub][path].metadata, "fallback")

\* hub.registry.lookup_similar(request.path, 0.8): the registered paths with
\* a handler that score at least the threshold, and the best of them
SimilarPaths(hub, path) ==
    {q \in ScopePaths \ {path} :
        /\ RegistryLookup(hub, q)
        /\ ScoresAtLeastThreshold(q, path)}

Longest(a, b) == IF Len(a) >= Len(b) THEN Len(a) ELSE Len(b)

LookupSimilar(hub, path) ==
    CHOOSE q \in SimilarPaths(hub, path) :
        \A r \in SimilarPaths(hub, path) :
            (Longest(q, path) - EditDistance(q, path)) * Longest(r, path)
                >= (Longest(r, path) - EditDistance(r, path)) * Longest(q, path)

\* copy_and_update_path(request, path)
CopyAndUpdatePath(request, path) ==
    [request EXCEPT !.path = path,
                    !.metadata = @ \cup {<<"original_path", request.path>>}]

\* handle_request(hub, request); depth counts the rewrites of the request
RECURSIVE ScopeHandleRequest(_, _, _)
ScopeHandleRequest(hub, request, depth) ==
    IF depth > RecursionLimit
    THEN [raised |-> "RecursionError", response |-> None, request |-> None,
          hub |-> hub, steps |-> <<>>]
    \* 1. Check for interception
    ELSE IF Intercepts(hub, request)
    THEN [raised |-> "", request |-> request, hub |-> hub,
          steps |-> <<<<hub, "intercept">>>>,
          response |-> [data |-> <<hub, request.path>>,
                        metadata |-> request.metadata, status |-> "intercepted"]]
    \* 2. Check local registry
    ELSE IF RegistryLookup(hub, request.path)
    THEN [raised |-> "", request |-> request, hub |-> hub,
          steps |-> <<<<hub, "local">>>>,
          response |-> [data |-> <<hub, request.path>>,
                        metadata |-> request.metadata, status |-> "success"]]
    \* 3. Escalate to parent hub
    ELSE IF ParentHub(hub) # NoHub
    THEN [ScopeHandleRequest(ParentHub(hub), request, depth)
             EXCEPT !.steps = <<<<hub, "parent">>>> \o @]
    \* 4. Try fallback
    ELSE IF HasFallback(hub, request.path)
    THEN [ScopeHandleRequest(hub,
              CopyAndUpdatePath(request, LookupFallback(hub, request.path)),
              depth + 1)
             EXCEPT !.steps = <<<<hub, "fallback">>>> \o @]
    \* 5. Try approximation
    ELSE IF SimilarPaths(hub, request.path) # {}
    THEN LET similar == ScopeHandleRequest(hub,
                 CopyAndUpdatePath(request, LookupSimilar(hub, request.path)),
                 depth + 1)
         IN  [similar EXCEPT
                 !.steps = <<<<hub, "approximate">>>> \o @,
                 !.response = IF @ = None THEN None
                              ELSE [@ EXCEPT !.metadata = @ \cup
                                       {<<"approximation", <<"true">>>>}]]
    \* 6. Not found
    ELSE [raised |-> "", request |-> None, hub |-> hub,
          steps |-> <<<<hub, "not_found">>>>,
          response |-> [data |-> NoData, metadata |-> {}, status |-> "not_found"]]

\* node.call_api at a node of the hub: create_request and handle_request
ScopeCallApi(hub, path) ==
    /\ SeqStep("scope")
    /\ last' = [op |-> "call_api", hub |-> hub, path |-> path,
                request_id |-> ops + 1,
                outcome |-> ScopeHandleRequest(hub,
                    [path |-> path, metadata |-> {}, request_id |-> ops + 1], 1)]
    /\ UNCHANGED <<node_vars, enhanced_vars, scope_vars>>

(***************************************************************************)
(* NetworkHubClient (network_hub_python_client.py)                         *)
(***************************************************************************)
\* Calls a behaviour makes on the client
MaxNetCalls == 3

\* Threads of the application that share one client
NetThreads == {"n1", "n2"}

NoThread == "None"

\* connect(), disconnect(), _send_request called for a registration
\* ("send"), and the two methods that wrap it in `except Exception`
NetOperations == {"connect", "disconnect", "send", "call_api", "publish"}

Exceptions == {"ConnectionError", "AttributeError"}

\* What the method that was called does with the outcome of connect,
\* disconnect or _send_request: call_api and publish catch every Exception,
\* call_api returns ApiResponse(data=None, metadata={'error': str(e)},
\* status=ResponseStatus.ERROR) and publish returns None
MethodEnds(op, outcome) ==
    IF outcome \notin Exceptions
    THEN [raised |-> "", returns |-> outcome]
    ELSE CASE op = "call_api" -> [raised |-> "", returns |-> "ApiResponse(ERROR)"]
           [] op = "publish" -> [raised |-> "", returns |-> "None"]
           [] OTHER -> [raised |-> outcome, returns |-> ""]

\* Positions at which a thread waits for self.connect_lock, and the position
\* it holds the lock at
Acquiring == {"connect_acquire", "ensure_acquire", "disconnect_acquire",
              "send_acquire"}

Locked(position) ==
    CASE position = "connect_acquire" -> "connect_locked"
      [] position = "ensure_acquire" -> "ensure_locked"
      [] position = "disconnect_acquire" -> "disconnect_locked"
      [] position = "send_acquire" -> "send_locked"

\* Positions inside a blocking call on the socket: connect((host, port)),
\* recv(1)
InTransportIO == {"connect_io", "ensure_io", "send_waiting", "send_read"}

\* __init__
InitNetwork ==
    /\ connect_lock = NoThread
    /\ connection = "None"
    /\ net_pc = [t \in NetThreads |-> "idle"]
    /\ net_log = [t \in NetThreads |->
           [op |-> "none", steps |-> <<>>, outcome |-> "", ended |-> None]]
    /\ net_calls = 0

NetStep(t, from) ==
    /\ sys = "network"
    /\ net_pc[t] \in from
    /\ UNCHANGED <<sys, shallow_vars, node_vars, enhanced_vars, scope_vars,
                   apart_vars, ops, last>>

Did(t, step) == [net_log EXCEPT ![t].steps = Append(@, step)]

Ended(t, step, outcome) ==
    [net_log EXCEPT ![t].steps = Append(@, step), ![t].outcome = outcome,
                    ![t].ended = MethodEnds(net_log[t].op, outcome)]

\* A thread calls connect(), disconnect() or a method that calls
\* _send_request
NetCall(t, op) ==
    /\ NetStep(t, {"idle"})
    /\ net_calls < MaxNetCalls
    /\ net_calls' = net_calls + 1
    /\ net_log' = [net_log EXCEPT ![t] =
           [op |-> op, steps |-> <<>>, outcome |-> "", ended |-> None]]
    /\ net_pc' = [net_pc EXCEPT ![t] =
           CASE op = "connect" -> "connect_acquire"
             [] op = "disconnect" -> "disconnect_acquire"
             [] OTHER -> "ensure"]
    /\ UNCHANGED <<connect_lock, connection>>

\* _send_request: if not self._ensure_connected(); _ensure_connected: if
\* self._connection is None: return self.connect()
NetEnsureConnected(t) ==
    /\ NetStep(t, {"ensure"})
    /\ net_pc' = [net_pc EXCEPT ![t] =
           IF connection = "None" THEN "ensure_acquire" ELSE "send_acquire"]
    /\ UNCHANGED <<connect_lock, connection, net_log, net_calls>>

\* with self.connect_lock: the lock is acquired
NetAcquire(t) ==
    /\ NetStep(t, Acquiring)
    /\ connect_lock = NoThread
    /\ connect_lock' = t
    /\ net_pc' = [net_pc EXCEPT ![t] = Locked(net_pc[t])]
    /\ UNCHANGED <<connection, net_log, net_calls>>

\* connect, under the lock: return True if there is a connection, else
\* self._connection = context.wrap_socket(sock, ...) and the call of
\* self._connection.connect((host, port)) starts
NetConnectStart(t) ==
    /\ NetStep(t, {"connect_locked", "ensure_locked"})
    /\ IF connection # "None"
       THEN /\ connect_lock' = NoThread
            /\ net_pc' = [net_pc EXCEPT ![t] =
                   IF net_pc[t] = "connect_locked" THEN "idle" ELSE "send_acquire"]
            /\ net_log' = IF net_pc[t] = "connect_locked"
                          THEN Ended(t, "connected_already", "True") ELSE net_log
            /\ UNCHANGED connection
       ELSE /\ connection' = "connecting"
            /\ net_pc' = [net_pc EXCEPT ![t] =
                   IF net_pc[t] = "connect_locked" THEN "connect_io" ELSE "ensure_io"]
            /\ net_log' = Did(t, "connect")
            /\ UNCHANGED connect_lock
    /\ UNCHANGED net_calls

\* connect: self._connection.connect returns, or raises socket.error
\* (self._connection = None; return False); the with block ends.  After a
\* False, _send_request raises ConnectionError("Not connected ...").
NetConnectEnd(t, connected_now) ==
    /\ NetStep(t, {"connect_io", "ensure_io"})
    /\ connection' = IF connected_now THEN "open" ELSE "None"
    /\ connect_lock' = NoThread
    /\ net_pc' = [net_pc EXCEPT ![t] =
           IF net_pc[t] = "ensure_io" /\ connected_now THEN "send_acquire" ELSE "idle"]
    /\ net_log' =
           IF net_pc[t] = "connect_io"
           THEN Ended(t, "connect_returned", IF connected_now THEN "True" ELSE "False")
           ELSE IF connected_now THEN net_log
           ELSE Ended(t, "connect_failed", "ConnectionError")
    /\ UNCHANGED net_calls

\* disconnect, under the lock: if self._connection: close it; finally:
\* self._connection = None
NetDisconnect(t) ==
    /\ NetStep(t, {"disconnect_locked"})
    /\ connection' = "None"
    /\ connect_lock' = NoThread
    /\ net_pc' = [net_pc EXCEPT ![t] = "idle"]
    /\ net_log' = Ended(t, "close", "None")
    /\ UNCHANGED net_calls

\* _send_request, under the lock: self._connection.sendall(request_bytes).
\* On None it raises AttributeError, which the except clause does not name;
\* on a broken socket socket.error: self._connection = None, ConnectionError;
\* else recv(1) is called.
NetSend(t) ==
    /\ NetStep(t, {"send_locked"})
    /\ IF connection = "None"
       THEN /\ connect_lock' = NoThread
            /\ net_pc' = [net_pc EXCEPT ![t] = "idle"]
            /\ net_log' = Ended(t, "sendall", "AttributeError")
            /\ UNCHANGED connection
       ELSE IF connection = "broken"
       THEN /\ connect_lock' = NoThread
            /\ connection' = "None"
            /\ net_pc' = [net_pc EXCEPT ![t] = "idle"]
            /\ net_log' = Ended(t, "transport_error", "ConnectionError")
       ELSE /\ net_pc' = [net_pc EXCEPT ![t] = "send_waiting"]
            /\ net_log' = Did(t, "sendall")
            /\ UNCHANGED <<connect_lock, connection>>
    /\ UNCHANGED net_calls

\* _send_request: recv(1) has returned the type byte and recv(4096) the
\* whole of the response's JSON text; its last byte is not 0, so the loop
\* calls recv(4096) again
NetReceive(t) ==
    /\ NetStep(t, {"send_waiting"})
    /\ connection = "open"
    /\ net_pc' = [net_pc EXCEPT ![t] = "send_read"]
    /\ net_log' = Did(t, "response_complete")
    /\ UNCHANGED <<connect_lock, connection, net_calls>>

\* What the hub may do after the response: close the connection, or send a
\* byte 0
ServerEnds == {"close", "sentinel"}

\* _send_request: the recv after the complete response returns.  b'' (the
\* hub closed the connection): break, json.loads(buffer), return.  A chunk
\* that ends with 0: break, and json.loads raises JSONDecodeError on the
\* text followed by a NUL: self._connection = None; raise ConnectionError.
NetReceiveEnd(t, server) ==
    /\ NetStep(t, {"send_read"})
    /\ connection \in {"open", "broken"}
    /\ connect_lock' = NoThread
    /\ net_pc' = [net_pc EXCEPT ![t] = "idle"]
    /\ IF server = "close"
       THEN /\ connection' = "broken"
            /\ net_log' = Ended(t, "recv_empty", "response")
       ELSE /\ connection = "open"
            /\ connection' = "None"
            /\ net_log' = Ended(t, "json_error", "ConnectionError")
    /\ UNCHANGED net_calls

\* _send_request: recv returns b'' for the type byte or raises on the broken
\* connection: self._connection = None; raise ConnectionError
NetReceiveFails(t) ==
    /\ NetStep(t, {"send_waiting", "send_read"})
    /\ connection = "broken"
    /\ connect_lock' = NoThread
    /\ connection' = "None"
    /\ net_pc' = [net_pc EXCEPT ![t] = "idle"]
    /\ net_log' = Ended(t, "transport_error", "ConnectionError")
    /\ UNCHANGED net_calls

\* The connection to the hub breaks
NetBreak ==
    /\ sys = "network"
    /\ connection = "open"
    /\ connection' = "broken"
    /\ UNCHANGED <<sys, shallow_vars, node_vars, enhanced_vars, scope_vars,
                   apart_vars, ops, last, connect_lock, net_pc, net_log, net_calls>>

(***************************************************************************)
(* NetworkHubClient: connect, disconnect, reconnect, subscribe and the     *)
(* thread of _subscription_listener.  connect and disconnect run under     *)
(* connect_lock, one at a time; each call is one step.                     *)
(***************************************************************************)
\* Calls that the application makes
MaxClientCalls == 6

\* __init__: no handler, no thread, _running False
InitListener ==
    /\ handlers_stored = 0
    /\ subscription_thread = "None"
    /\ net_running = FALSE
    /\ listener_pc = "none"

\* The fields of the client that connect and disconnect read and write
ClientFields ==
    [connection |-> connection, subscription_thread |-> subscription_thread,
     running |-> net_running, listener_pc |-> listener_pc]

\* threading.Thread(target=self._subscription_listener).start(), with
\* self._running = True before it
ListenerStarted(fields) ==
    [fields EXCEPT !.running = TRUE, !.subscription_thread = "Thread",
                   !.listener_pc = "test"]

\* connect: True at once if there is a connection; else the socket connects
\* (or not: self._connection = None), and the listener is started `if
\* self._subscription_handlers and not self._subscription_thread`
AfterConnect(fields, handlers, connected_now) ==
    IF fields.connection # "None" THEN fields
    ELSE IF ~connected_now THEN fields
    ELSE LET open == [fields EXCEPT !.connection = "open"]
         IN  IF handlers > 0 /\ fields.subscription_thread = "None"
             THEN ListenerStarted(open) ELSE open

\* disconnect: if self._connection: self._running = False, join(timeout=2),
\* close; finally self._connection = None.  self._subscription_thread keeps
\* the Thread object.
AfterDisconnect(fields) ==
    IF fields.connection = "None" THEN fields
    ELSE [fields EXCEPT !.running = FALSE, !.connection = "None"]

\* A call of a method of the client by the application
ClientCall(fields, handlers) ==
    /\ sys = "listener"
    /\ net_calls < MaxClientCalls
    /\ net_calls' = net_calls + 1
    /\ connection' = fields.connection
    /\ subscription_thread' = fields.subscription_thread
    /\ net_running' = fields.running
    /\ listener_pc' = fields.listener_pc
    /\ handlers_stored' = handlers
    /\ UNCHANGED <<sys, shallow_vars, node_vars, enhanced_vars, scope_vars,
                   singleton_vars, routes, ops, last, connect_lock, net_pc, net_log>>

ListenerConnect(connected_now) ==
    ClientCall(AfterConnect(ClientFields, handlers_stored, connected_now),
               handlers_stored)

ListenerDisconnect == ClientCall(AfterDisconnect(ClientFields), handlers_stored)

\* reconnect: self.disconnect(); return self.connect()
ListenerReconnect(connected_now) ==
    ClientCall(AfterConnect(AfterDisconnect(ClientFields), handlers_stored,
                            connected_now),
               handlers_stored)

\* subscribe: the handler is stored; if there is a connection the
\* subscription is sent, and a transport error of _send_request leaves
\* self._connection None; then the listener is started `if not
\* self._subscription_thread and self._connection`
ListenerSubscribe(sent) ==
    LET after_send == IF connection # "None" /\ ~sent
                      THEN [ClientFields EXCEPT !.connection = "None"]
                      ELSE ClientFields
    IN  ClientCall(IF after_send.subscription_thread = "None"
                      /\ after_send.connection # "None"
                   THEN ListenerStarted(after_send) ELSE after_send,
                   handlers_stored + 1)

ListenerStep(from) ==
    /\ sys = "listener"
    /\ listener_pc = from
    /\ UNCHANGED <<sys, shallow_vars, node_vars, enhanced_vars, scope_vars,
                   singleton_vars, routes, ops, last, connect_lock, net_pc, net_log,
                   net_calls, handlers_stored, subscription_thread, net_running>>

\* _subscription_listener: while self._running
ListenerTest ==
    /\ ListenerStep("test")
    /\ listener_pc' = IF net_running THEN "ensure" ELSE "dead"
    /\ UNCHANGED connection

\* _subscription_listener: self._ensure_connected(), which calls connect()
\* when there is no connection, and the sleep after it
ListenerEnsure(connected_now) ==
    /\ ListenerStep("ensure")
    /\ connection' = AfterConnect(ClientFields, handlers_stored, connected_now).connection
    /\ listener_pc' = "test"

(***************************************************************************)
(* SecureApiGateway (secure_api_gateway.py) on a Node of node_library.     *)
(* A path is the sequence of its segments: '/proxy/users' is               *)
(* <<"proxy", "users">>.                                                   *)
(***************************************************************************)
\* The handlers that _register_core_apis registers
RoutesApiHandler == [id |-> 1, kind |-> "ok"]
KeysApiHandler == [id |-> 2, kind |-> "ok"]
ProxyRequestHandler == [id |-> 3, kind |-> "ok"]
HealthCheckHandler == [id |-> 4, kind |-> "ok"]

\* _register_core_apis: the registry of the gateway's node after __init__
CoreRegistry ==
    << <<(<<"gateway", "routes">>),
         [handler |-> RoutesApiHandler,
          metadata |-> {<<"secure", <<"true">>>>, <<"admin_only", <<"true">>>>}]>>,
       <<(<<"gateway", "keys">>),
         [handler |-> KeysApiHandler,
          metadata |-> {<<"secure", <<"true">>>>, <<"admin_only", <<"true">>>>}]>>,
       <<(<<"proxy", "*">>),
         [handler |-> ProxyRequestHandler, metadata |-> {<<"secure", <<"true">>>>}]>>,
       <<(<<"health">>),
         [handler |-> HealthCheckHandler, metadata |-> {<<"public", <<"true">>>>}]>> >>

\* SecureApiGateway.__init__
InitGateway ==
    /\ local_registry = CoreRegistry
    /\ local_subscriptions = <<>>
    /\ local_interceptors = <<>>
    /\ local_method_interceptors = <<>>
    /\ routes = {}

\* The paths of HTTP requests, and the paths that routes are added for
HttpPaths == {<<"proxy", "users">>, <<"users">>, <<"items">>, <<"proxy", "*">>,
              <<"health">>}
RoutePaths == {<<"users">>, <<"items">>, <<"health">>}

\* _handle_request: api_path = self.path if self.path.startswith('/proxy/')
\* else f"/proxy{self.path}"
ApiPath(path) ==
    IF Len(path) >= 2 /\ path[1] = "proxy" THEN path ELSE <<"proxy">> \o path

\* _handle_proxy_request: path = request.path[7:]
RouteOf(api_path) == Tail(api_path)

\* 200, or 404 for NOT_FOUND and 500 for ERROR
StatusCode(outcome) ==
    IF outcome.response = None THEN "500"
    ELSE IF outcome.response.status = "not_found" THEN "404"
    ELSE IF outcome.response.status = "error" THEN "500" ELSE "200"

GatewayStep ==
    /\ sys = "gateway"
    /\ ops < MaxOps
    /\ ops' = ops + 1
    /\ UNCHANGED <<sys, shallow_vars, node_vars, enhanced_vars, scope_vars, net_vars,
                   singleton_vars, listener_vars>>

\* SecureApiGateway.add_route
GatewayAddRoute(path) ==
    /\ GatewayStep
    /\ routes' = routes \cup {path}
    /\ last' = [op |-> "add_route", path |-> path]

\* GatewayRequestHandler._handle_request -> Node.call_api ->
\* HubConnector.handle_request
GatewayHandleRequest(path) ==
    /\ GatewayStep
    /\ LET outcome == HandleRequest(local_registry,
                          [path |-> ApiPath(path), metadata |-> {}], 1)
       IN  last' = [op |-> "http_request", path |-> path, api_path |-> ApiPath(path),
                    outcome |-> outcome, status_code |-> StatusCode(outcome)]
    /\ UNCHANGED routes

(***************************************************************************)
(* Method interception: Node (node_library) and EnhancedThreadHub          *)
(***************************************************************************)
\* class FileSearcher, and a class derived from it
Classes == {"FileSearcher", "WebSearcher"}

Methods == {"search"}

\* cls.__mro__
Mro(cls) ==
    IF cls = "WebSearcher" THEN <<"WebSearcher", "FileSearcher", "object">>
    ELSE <<"FileSearcher", "object">>

\* What a call passes to the method
Arguments == {"example", "web:example"}

\* method(instance, *args, **kwargs): the original method's returned
OriginalReturns(cls, args) == [by |-> cls, role |-> "original", args |-> args]

\* A wrapper that calls the original method whatever the interceptors said.
OriginalInvokedAlways(returned) == TRUE

\* `if result is not None: return result`, else the original is called
OriginalInvoked(returned) == returned = None

\* What a wrapper or proxy did: the interceptors it called in order, the
\* arguments of its call of the original method if it made one, and what it
\* returned
ProxyOutcome(calls, returned, cls, args) ==
    [calls |-> calls,
     original |-> IF OriginalInvoked(returned) THEN <<args>> ELSE <<>>,
     result |-> IF returned # None THEN returned ELSE OriginalReturns(cls, args)]

\* Node.register_method_interceptor
NodeRegisterMethodInterceptor(class_type, method_name, handler, priority) ==
    /\ SeqOp("connector")
    /\ LET by_method == IF DictHas(local_method_interceptors, class_type)
                        THEN DictGet(local_method_interceptors, class_type)
                        ELSE <<>>
       IN  local_method_interceptors' =
               DictSet(local_method_interceptors, class_type,
                   LocalAdd(by_method, method_name,
                       [handler |-> [id |-> ops + 1, kind |-> handler],
                        priority |-> priority]))
    /\ last' = [op |-> "register_method_interceptor", cls |-> class_type,
                method |-> method_name, priority |-> priority]
    /\ UNCHANGED <<local_registry, local_subscriptions, local_interceptors,
                   enhanced_vars>>

\* Node._try_intercept_method_locally: the list it walks
LocalMethodInterceptors(table, class_type, method_name) ==
    IF DictHas(table, class_type)
    THEN IF DictHas(DictGet(table, class_type), method_name)
         THEN DictGet(DictGet(table, class_type), method_name)
         ELSE <<>>
    ELSE <<>>

\* HubConnector.try_intercept_method: return None
ConnectorTryInterceptMethod(cls, method_name) == None

\* The wrapper of Node._make_interceptable and the proxy of Node.create_proxy:
\* local interceptors, then the hub connector, then the original method
NodeCallInterceptable(cls, method_name, args) ==
    /\ SeqOp("connector")
    /\ LET calls == InterceptorCalls(
                        LocalMethodInterceptors(local_method_interceptors,
                                                cls, method_name))
           local == IF calls = <<>> THEN None
                    ELSE InterceptorReturns(calls[Len(calls)].handler)
           returned == IF local # None THEN local
                     ELSE ConnectorTryInterceptMethod(cls, method_name)
       IN  last' = [op |-> "call", cls |-> cls, method |-> method_name,
                    args |-> args,
                    outcome |-> ProxyOutcome(
                        [k \in DOMAIN calls |-> calls[k].handler.id],
                        returned, cls, args)]
    /\ UNCHANGED <<node_vars, enhanced_vars>>

\* interceptor.handler(ctx) of a MethodInterceptorEntry
EntryReturns(entry) ==
    IF entry.handler = "value" THEN [by |-> entry.id, role |-> "interceptor"]
    ELSE None

\* `for _, interceptor in <list>: result = interceptor.handler(ctx); if result
\* is not None: return result`, over the lists one after the other
RECURSIVE EntryCalls(_)
EntryCalls(list) ==
    IF list = <<>> THEN <<>>
    ELSE IF EntryReturns(list[1][2]) # None THEN <<list[1][2]>>
    ELSE <<list[1][2]>> \o EntryCalls(Tail(list))

\* EnhancedThreadHub.try_intercept_method: the lists of (cls, method_name) and
\* then of (parent_cls, method_name) for parent_cls in cls.__mro__[1:]
RECURSIVE MroLists(_, _, _)
MroLists(table, mro, method_name) ==
    IF mro = <<>> THEN <<>>
    ELSE (IF DictHas(table, <<mro[1], method_name>>)
          THEN DictGet(table, <<mro[1], method_name>>) ELSE <<>>)
         \o MroLists(table, Tail(mro), method_name)

\* The proxy of EnhancedThreadHub.create_method_proxy and the wrapper of
\* EnhancedVirtualNode.intercept
EnhancedCallProxy(cls, method_name, args) ==
    /\ SeqOp("enhanced")
    /\ LET calls == EntryCalls(MroLists(method_interceptors, Mro(cls), method_name))
           returned == IF calls = <<>> THEN None
                     ELSE EntryReturns(calls[Len(calls)])
       IN  last' = [op |-> "call", cls |-> cls, method |-> method_name,
                    args |-> args,
                    outcome |-> ProxyOutcome(
                        [k \in DOMAIN calls |-> calls[k].id],
                        returned, cls, args)]
    /\ UNCHANGED <<node_vars, enhanced_vars>>

(***************************************************************************)
(* EnhancedThreadHub.get_instance (python-message-interception.py)         *)
(***************************************************************************)
\* Calls of get_instance in a behaviour
MaxGetCalls == 3

\* Threads that make an EnhancedVirtualNode, or call get_instance themselves
HubThreads == {"h1", "h2"}

\* None, where a hub is <<n>>, the n-th EnhancedThreadHub constructed
NoInstance == <<>>

\* _instance = None
InitSingleton ==
    /\ instance = NoInstance
    /\ get_pc = [t \in HubThreads |-> "idle"]
    /\ get_new = [t \in HubThreads |-> NoInstance]
    /\ got = [t \in HubThreads |-> <<>>]
    /\ hubs_made = 0

\* Calls of get_instance made so far, returned or under way
GetCallsMade ==
    Len(got["h1"]) + Len(got["h2"])
        + Cardinality({t \in HubThreads : get_pc[t] # "idle"})

GetStep(t, from, to) ==
    /\ sys = "singleton"
    /\ get_pc[t] = from
    /\ get_pc' = [get_pc EXCEPT ![t] = to]
    /\ UNCHANGED <<sys, shallow_vars, node_vars, enhanced_vars, scope_vars, net_vars,
                   listener_vars, routes, ops, last>>

\* get_instance is called: `if cls._instance is None`
GetInstanceTest(t) ==
    /\ sys = "singleton"
    /\ get_pc[t] = "idle"
    /\ GetCallsMade < MaxGetCalls
    /\ get_pc' = [get_pc EXCEPT ![t] = IF instance = NoInstance THEN "construct" ELSE "return"]
    /\ UNCHANGED <<sys, shallow_vars, node_vars, enhanced_vars, scope_vars, net_vars,
                   listener_vars, routes, ops, last, instance, get_new, got,
                   hubs_made>>

\* EnhancedThreadHub()
GetInstanceConstruct(t) ==
    /\ GetStep(t, "construct", "assign")
    /\ hubs_made' = hubs_made + 1
    /\ get_new' = [get_new EXCEPT ![t] = <<hubs_made + 1>>]
    /\ UNCHANGED <<instance, got>>

\* cls._instance = <the new hub>
GetInstanceAssign(t) ==
    /\ GetStep(t, "assign", "return")
    /\ instance' = get_new[t]
    /\ UNCHANGED <<get_new, got, hubs_made>>

\* return cls._instance
GetInstanceReturn(t) ==
    /\ GetStep(t, "return", "idle")
    /\ got' = [got EXCEPT ![t] = Append(@, instance)]
    /\ UNCHANGED <<instance, get_new, hubs_made>>

(***************************************************************************)
(* to_dict / from_dict of HubMessage, Message, ApiRequest and ApiResponse  *)
(* (shallow_hub_python.py)                                                 *)
(***************************************************************************)
\* Readings of the clock, int(time.time() * 1000), in a behaviour
MaxTime == 3

Times == 1..MaxTime

\* message_id handed to HubMessage(...): None, or the id of a request
MessageIdArguments == {"None", "r1"}

\* `message_id or str(uuid.uuid4())`: None and '' are false
Falsy(value) == value \in {"None", ""}

Payloads == {"hello", ""}
MetadataDicts == {{}, {<<"k", "v">>}}
HubMessageTypes == {TYPE_API_REQUEST, TYPE_PUBLISH, TYPE_SHUTDOWN}

\* class ResponseStatus(Enum): member -> value
ResponseStatusMembers ==
    [SUCCESS |-> "success", NOT_FOUND |-> "not_found", ERROR |-> "error",
     INTERCEPTED |-> "intercepted", APPROXIMATED |-> "approximated"]

\* A member of ResponseStatus, as the object it is
Member(name) == [enum |-> "ResponseStatus", name |-> name]

\* status.value
ValueOf(member) == ResponseStatusMembers[member.name]

\* ResponseStatus(value): the member that has the value
ResponseStatus(value) ==
    Member(CHOOSE name \in DOMAIN ResponseStatusMembers :
               ResponseStatusMembers[name] = value)

\* HubMessage.__init__ at clock reading now; uuid is what uuid4 gives then
HubMessageInit(msg_type, data, client_id, message_id, now, uuid) ==
    [class |-> "HubMessage", type |-> msg_type, data |-> data,
     client_id |-> client_id,
     message_id |-> IF Falsy(message_id) THEN uuid ELSE message_id,
     timestamp |-> now]

\* HubMessage.to_dict
HubMessageToDict(m) ==
    [type |-> m.type, data |-> m.data, client_id |-> m.client_id,
     message_id |-> m.message_id, timestamp |-> m.timestamp]

\* HubMessage.from_dict: cls(msg_type=..., data=..., client_id=...,
\* message_id=...)
HubMessageFromDict(data, now, uuid) ==
    HubMessageInit(data.type, data.data, data.client_id, data.message_id, now, uuid)

\* Message(...) with __post_init__ at clock reading now
MessageInit(topic, data, metadata, sender_id, timestamp, now) ==
    [class |-> "Message", topic |-> topic, data |-> data, metadata |-> metadata,
     sender_id |-> sender_id,
     timestamp |-> IF timestamp = 0 THEN now ELSE timestamp]

\* Message.to_dict
MessageToDict(m) ==
    [topic |-> m.topic, data |-> m.data, metadata |-> m.metadata,
     sender_id |-> m.sender_id, timestamp |-> m.timestamp]

\* Message.from_dict
MessageFromDict(data, now) ==
    MessageInit(data.topic, data.data, data.metadata, data.sender_id,
                data.timestamp, now)

\* ApiRequest.to_dict
ApiRequestToDict(request) ==
    [path |-> request.path, data |-> request.data, metadata |-> request.metadata,
     sender_id |-> request.sender_id]

\* ApiRequest.from_dict
ApiRequestFromDict(data) ==
    [class |-> "ApiRequest", path |-> data.path, data |-> data.data,
     metadata |-> data.metadata, sender_id |-> data.sender_id]

\* ApiResponse.to_dict
ApiResponseToDict(response) ==
    [data |-> response.data, metadata |-> response.metadata,
     status |-> ValueOf(response.status)]

\* ApiResponse.from_dict
ApiResponseFromDict(data) ==
    [class |-> "ApiResponse", data |-> data.data, metadata |-> data.metadata,
     status |-> ResponseStatus(data.status)]

\* One object is made, turned into its dictionary and made again from it
RoundTrip(original, dict, restored) ==
    /\ sys = "codec"
    /\ last.op = "none"
    /\ last' = [op |-> "round_trip", original |-> original, dict |-> dict,
                restored |-> restored]
    /\ UNCHANGED <<sys, shallow_vars, node_vars, enhanced_vars, scope_vars,
                   net_vars, apart_vars, ops>>

\* m = HubMessage(...) at made; HubMessage.from_dict(m.to_dict()) at now
RoundTripHubMessage(msg_type, data, client_id, message_id, made, now) ==
    LET m == HubMessageInit(msg_type, data, client_id, message_id, made, "uuid1")
    IN  RoundTrip(m, HubMessageToDict(m),
                  HubMessageFromDict(HubMessageToDict(m), now, "uuid2"))

RoundTripMessage(topic, data, metadata, sender_id, timestamp, made, now) ==
    LET m == MessageInit(topic, data, metadata, sender_id, timestamp, made)
    IN  RoundTrip(m, MessageToDict(m), MessageFromDict(MessageToDict(m), now))

RoundTripApiRequest(path, data, metadata, sender_id) ==
    LET request == [class |-> "ApiRequest", path |-> path, data |-> data,
                    metadata |-> metadata, sender_id |-> sender_id]
    IN  RoundTrip(request, ApiRequestToDict(request),
                  ApiRequestFromDict(ApiRequestToDict(request)))

RoundTripApiResponse(data, metadata, status) ==
    LET response == [class |-> "ApiResponse", data |-> data,
                     metadata |-> metadata, status |-> Member(status)]
    IN  RoundTrip(response, ApiResponseToDict(response),
                  ApiResponseFromDict(ApiResponseToDict(response)))

(***************************************************************************)
(* The pattern matchers, side by side                                      *)
(***************************************************************************)
Alphabet == {"t", "a", "*"}

Strings == UNION {[1..k -> Alphabet] : k \in 0..MaxLen}

\* Each matcher applied to (pattern, topic); the EnhancedThreadHub's by
\* publishing the topic to a hub that holds one interceptor under the pattern.
\* The matchers keep no state, so a behaviour applies them to one pair.
MatchTopic(pattern, topic) ==
    /\ sys = "matchers"
    /\ last.op = "none"
    /\ last' = [op |-> "match", pattern |-> pattern, topic |-> topic,
                hub |-> PatternMatches(pattern, topic),
                client |-> ClientPatternMatches(pattern, topic),
                connector |-> ConnectorPatternMatches(pattern, topic),
                enhanced |-> PublishMessageDispatch(
                    <<<<pattern, <<<<0, InterceptorEntry("null", 0, 1)>>>>>>>>,
                    topic) # <<>>]
    /\ UNCHANGED <<sys, shallow_vars, node_vars, enhanced_vars, scope_vars,
                   net_vars, apart_vars, ops>>

(***************************************************************************)
(* Specifications                                                          *)
(***************************************************************************)
\* Every program constructed, none of them started.
Init ==
    /\ InitShallow
    /\ InitConnector
    /\ InitEnhanced
    /\ InitScope
    /\ InitNetwork
    /\ InitSingleton
    /\ InitListener
    /\ routes = {}
    /\ ops = 0
    /\ last = [op |-> "none"]

\* The listener's handling of responses and the application thread's wait,
\* apart from the deadline.
WaitSteps ==
    \/ \E c \in Clients : ClientApiResponse(c)
    \/ \E c \in Clients : StorePending(c)
    \/ \E c \in Clients : Return(c)
    \/ \E c \in Clients : TimeoutError(c)

\* No message that carries the id of c's request is on its way.
ResponseLost(c) ==
    /\ \A i \in DOMAIN hub_queue : hub_queue[i].message_id # cur[c]
    /\ \A d \in Clients : \A i \in DOMAIN client_queue[d] :
           client_queue[d][i].message_id # cur[c]

\* One application thread drives every node, as example() does: an
\* operation starts when the one before it has returned.
OneAtATime == \A c \in Clients : pc[c] = "idle"

\* Applications that register and call APIs, connect and disconnect, each
\* client from a thread of its own; a deadline may pass at any time.
NextShallowApi ==
    \/ HubRegisterApi
    \/ HubApiRequest
    \/ HubApiResponse
    \/ \E c \in Clients : ClientApiRequest(c)
    \/ /\ next_id <= MaxApiMsgs
       /\ \E c \in Clients, path \in Paths, handler \in ApiHandlerKinds :
              RegisterApi(c, path, handler)
    \/ /\ next_id <= MaxApiMsgs
       /\ \E c \in Clients, path \in Paths : CallApi(c, path)
    \/ \E c \in Clients : Connect(c)
    \/ \E c \in Clients : Disconnect(c)
    \/ \E c \in Clients : Expire(c)
    \/ WaitSteps

\* The same applications, with a second thread that may disconnect a client
\* while a call of that client waits.
NextShallowLifecycle ==
    \/ NextShallowApi
    \/ \E c \in Clients : DisconnectDuringCall(c)

\* The client that goes offline
OfflineClients == {"c1"}

\* An application that registers and calls APIs and publishes through one
\* client, which it connects and disconnects.
NextShallowOffline ==
    \/ HubRegisterApi
    \/ HubApiRequest
    \/ HubApiResponse
    \/ HubPublish
    \/ \E c \in OfflineClients : ClientApiRequest(c)
    \/ /\ next_id <= MaxApiMsgs
       /\ \E c \in OfflineClients, path \in Paths, handler \in ApiHandlerKinds :
              RegisterApi(c, path, handler)
    \/ /\ next_id <= MaxApiMsgs
       /\ \E c \in OfflineClients, path \in Paths : CallApi(c, path)
    \/ /\ next_id <= MaxApiMsgs
       /\ \E c \in OfflineClients, topic \in Topics : Publish(c, topic)
    \/ \E c \in OfflineClients : Connect(c)
    \/ \E c \in OfflineClients : Disconnect(c)
    \/ \E c \in OfflineClients : Expire(c)
    \/ WaitSteps

\* The same applications, and the owner of the hub, who may shut it down.
NextShallowShutdown ==
    \/ NextShallowApi
    \/ \E in_get \in BOOLEAN : Shutdown(in_get)
    \/ HubShutdown

\* An application that subscribes, registers interceptors and publishes, one
\* operation at a time, with a deadline longer than the hub takes: a wait
\* expires only when no response can arrive any more.
NextShallowPub ==
    \/ HubSubscribe
    \/ HubRegisterInterceptor
    \/ HubPublish
    \/ \E c \in Clients : ClientPublish(c)
    \/ /\ next_id <= MaxPubMsgs /\ OneAtATime
       /\ \E c \in Clients, pattern \in Patterns, priority \in PubPriorities :
              Subscribe(c, pattern, priority)
    \/ /\ next_id <= MaxPubMsgs /\ OneAtATime
       /\ \E c \in Clients, pattern \in Patterns, priority \in PubPriorities,
             handler \in InterceptorKinds :
              RegisterInterceptor(c, pattern, priority, handler)
    \/ /\ next_id <= MaxPubMsgs /\ OneAtATime
       /\ \E c \in Clients, topic \in Topics : Publish(c, topic)
    \/ \E c \in Clients : ResponseLost(c) /\ Expire(c)
    \/ WaitSteps

\* A node that publishes and a node that subscribes to every topic
Publishers == {"c1"}
Subscribers == {"c2"}
WildcardPatterns == {<<"t", "*">>}

\* The two nodes, each client from a thread of its
\* own, with no interceptor registered; a deadline may pass at any time, so
\* that a client may publish again while its last message is still on its
\* way.
NextShallowOrder ==
    \/ HubSubscribe
    \/ HubPublish
    \/ \E c \in Clients : ClientPublish(c)
    \/ /\ next_id <= MaxPubMsgs
       /\ \E c \in Subscribers, pattern \in WildcardPatterns,
             priority \in PubPriorities :
              Subscribe(c, pattern, priority)
    \/ /\ next_id <= MaxPubMsgs
       /\ \E c \in Publishers, topic \in Topics : Publish(c, topic)
    \/ \E c \in Clients : Expire(c)
    \/ WaitSteps

\* The same application, only subscribing and registering interceptors, at
\* every priority.
NextShallowReg ==
    \/ HubSubscribe
    \/ HubRegisterInterceptor
    \/ /\ next_id <= MaxRegMsgs /\ OneAtATime
       /\ \E c \in Clients, pattern \in Patterns, priority \in Priorities :
              Subscribe(c, pattern, priority)
    \/ /\ next_id <= MaxRegMsgs /\ OneAtATime
       /\ \E c \in Clients, pattern \in Patterns, priority \in Priorities :
              RegisterInterceptor(c, pattern, priority, "null")
    \/ \E c \in Clients : ResponseLost(c) /\ Expire(c)
    \/ WaitSteps

\* HubConnector: APIs, interceptors and requests
NextConnectorApi ==
    \/ \E path \in NodePaths, handler \in NodeHandlerKinds, metadata \in NodeMetadata :
           ConnectorRegisterApi(path, handler, metadata)
    \/ \E pattern \in Patterns \cup NodePaths, priority \in PubPriorities,
          handler \in InterceptorKinds :
           ConnectorRegisterInterceptor(pattern, priority, handler)
    \/ \E path \in NodePaths : ConnectorHandleRequest(path)

\* HubConnector: subscriptions, interceptors and publishes
NextConnectorPub ==
    \/ \E pattern \in Patterns, priority \in Priorities :
           ConnectorSubscribe(pattern, priority, "returns")
    \/ \E pattern \in Patterns, priority \in Priorities,
          handler \in InterceptorKinds :
           ConnectorRegisterInterceptor(pattern, priority, handler)
    \/ \E topic \in Topics : ConnectorPublish(topic)

\* HubConnector: subscribers whose callbacks may raise, interceptors, and
\* publishes
NextConnectorFanout ==
    \/ \E pattern \in Patterns, callback \in CallbackKinds :
           ConnectorSubscribe(pattern, 0, callback)
    \/ \E pattern \in Patterns, handler \in InterceptorKinds :
           ConnectorRegisterInterceptor(pattern, 0, handler)
    \/ \E topic \in Topics : ConnectorPublish(topic)

\* EnhancedThreadHub: registrations
NextEnhancedReg ==
    \/ \E topic \in Topics, priority \in Priorities :
           EnhancedRegisterInterceptor(topic, "null", priority)
    \/ \E key \in MethodKeys, priority \in Priorities :
           EnhancedRegisterMethodInterceptor(key, "null", priority)

\* EnhancedThreadHub: interceptors and publishes
NextEnhancedPub ==
    \/ \E topic \in Topics, handler \in InterceptorKinds, priority \in Priorities :
           EnhancedRegisterInterceptor(topic, handler, priority)
    \/ \E topic \in Topics : EnhancedPublishMessage(topic)

\* An application that connects, disconnects, reconnects and subscribes, and
\* the listener thread
NextListener ==
    \/ \E connected_now \in BOOLEAN : ListenerConnect(connected_now)
    \/ ListenerDisconnect
    \/ \E connected_now \in BOOLEAN : ListenerReconnect(connected_now)
    \/ \E sent \in BOOLEAN : ListenerSubscribe(sent)
    \/ ListenerTest
    \/ \E connected_now \in BOOLEAN : ListenerEnsure(connected_now)

\* The gateway: routes are added, HTTP requests arrive
NextGateway ==
    \/ \E path \in RoutePaths : GatewayAddRoute(path)
    \/ \E path \in HttpPaths : GatewayHandleRequest(path)

\* HubConnector holding and asked for paths that are one edit apart
NearPaths == {<<"i", "t", "e", "m", "s">>, <<"i", "t", "e", "m">>, <<"i", "t">>}

NextConnectorNear ==
    \/ \E path \in NearPaths, handler \in NodeHandlerKinds :
           ConnectorRegisterApi(path, handler, {})
    \/ \E path \in NearPaths : ConnectorHandleRequest(path)

\* Two threads that call get_instance, each any number of times
NextSingleton ==
    \/ \E t \in HubThreads : GetInstanceTest(t)
    \/ \E t \in HubThreads : GetInstanceConstruct(t)
    \/ \E t \in HubThreads : GetInstanceAssign(t)
    \/ \E t \in HubThreads : GetInstanceReturn(t)

\* Objects of the four classes, made at one reading of the clock and made
\* again from their dictionaries at a later one
NextCodec ==
    \/ \E msg_type \in HubMessageTypes, data \in Payloads, client_id \in Clients,
          message_id \in MessageIdArguments, made \in Times, now \in Times :
           made <= now /\ RoundTripHubMessage(msg_type, data, client_id,
                                              message_id, made, now)
    \/ \E topic \in Topics, data \in Payloads, metadata \in MetadataDicts,
          sender_id \in Clients, timestamp \in {0} \cup Times,
          made \in Times, now \in Times :
           made <= now /\ RoundTripMessage(topic, data, metadata, sender_id,
                                           timestamp, made, now)
    \/ \E path \in Paths, data \in Payloads, metadata \in MetadataDicts,
          sender_id \in Clients :
           RoundTripApiRequest(path, data, metadata, sender_id)
    \/ \E data \in Payloads, metadata \in MetadataDicts,
          status \in DOMAIN ResponseStatusMembers :
           RoundTripApiResponse(data, metadata, status)

\* Two threads that use one NetworkHubClient, and its connection
NextNetwork ==
    \/ \E t \in NetThreads, op \in NetOperations : NetCall(t, op)
    \/ \E t \in NetThreads : NetEnsureConnected(t)
    \/ \E t \in NetThreads : NetAcquire(t)
    \/ \E t \in NetThreads : NetConnectStart(t)
    \/ \E t \in NetThreads, connected_now \in BOOLEAN : NetConnectEnd(t, connected_now)
    \/ \E t \in NetThreads : NetDisconnect(t)
    \/ \E t \in NetThreads : NetSend(t)
    \/ \E t \in NetThreads : NetReceive(t)
    \/ \E t \in NetThreads, server \in ServerEnds : NetReceiveEnd(t, server)
    \/ \E t \in NetThreads : NetReceiveFails(t)
    \/ NetBreak

\* Nodes at the hubs T and P that register APIs and interceptors and call
\* APIs
NextScope ==
    \/ \E hub \in Scopes, path \in ScopePaths, handler \in ScopeHandlerKinds,
          metadata \in ScopeMetadata :
           ScopeRegisterApi(hub, path, handler, metadata)
    \/ \E hub \in Scopes, key \in ScopePaths, handler \in InterceptorKinds,
          priority \in PubPriorities :
           ScopeIntercept(hub, key, handler, priority)
    \/ \E hub \in Scopes, path \in ScopePaths : ScopeCallApi(hub, path)

\* Applications that register method interceptors and call interceptable
\* methods, at a Node and at an EnhancedThreadHub
NextMethods ==
    \/ \E cls \in Classes, method \in Methods, handler \in InterceptorKinds,
          priority \in Priorities :
           NodeRegisterMethodInterceptor(cls, method, handler, priority)
    \/ \E cls \in Classes, method \in Methods, args \in Arguments :
           NodeCallInterceptable(cls, method, args)
    \/ \E cls \in Classes, method \in Methods, handler \in InterceptorKinds,
          priority \in Priorities :
           EnhancedRegisterMethodInterceptor(<<cls, method>>, handler, priority)
    \/ \E cls \in Classes, method \in Methods, args \in Arguments :
           EnhancedCallProxy(cls, method, args)

NextMatchers == \E pattern \in Strings, topic \in Strings : MatchTopic(pattern, topic)

\* The program a behaviour runs
StartShallow == sys = "shallow" /\ Init

StartConnector == sys = "connector" /\ Init

StartRegistry == sys \in {"shallow", "enhanced"} /\ Init

StartMatchers == sys = "matchers" /\ Init

SpecMatchers == StartMatchers /\ [][NextMatchers]_vars

SpecConnectorNear == StartConnector /\ [][NextConnectorNear]_vars

\* handle_request at the HubConnector and call_api at the ShallowHub
StartApi == sys \in {"shallow", "connector"} /\ Init

NextApi == NextShallowApi \/ NextConnectorApi

SpecApi == StartApi /\ [][NextApi]_vars

SpecShallowLifecycle == StartShallow /\ [][NextShallowLifecycle]_vars

\* What runs without the application asking: the hub's thread (_run_hub),
\* the clients' listener threads (_message_listener), and the calls that are
\* inside _send_request_and_wait, whose deadline passes
HubThread == HubRegisterApi \/ HubApiRequest \/ HubApiResponse

ListenerThreads == \E c \in Clients : ClientApiRequest(c) \/ ClientApiResponse(c)

WaitingCalls == (\E c \in Clients : Expire(c)) \/ WaitSteps

SpecShallowApiFair ==
    /\ StartShallow
    /\ [][NextShallowApi]_vars
    /\ WF_vars(HubThread)
    /\ WF_vars(ListenerThreads)
    /\ WF_vars(WaitingCalls)

StartSingleton == sys = "singleton" /\ Init

SpecSingleton == StartSingleton /\ [][NextSingleton]_vars

StartCodec == sys = "codec" /\ Init

SpecCodec == StartCodec /\ [][NextCodec]_vars

StartNetwork == sys = "network" /\ Init

SpecNetwork == StartNetwork /\ [][NextNetwork]_vars

StartScope == sys = "scope" /\ Init

SpecScope == StartScope /\ [][NextScope]_vars

StartMethods == sys \in {"connector", "enhanced"} /\ Init

SpecMethods == StartMethods /\ [][NextMethods]_vars

NextRegistry == NextShallowReg \/ NextEnhancedReg

SpecShallowApi == StartShallow /\ [][NextShallowApi]_vars

SpecShallowShutdown == StartShallow /\ [][NextShallowShutdown]_vars

SpecShallowOffline == StartShallow /\ [][NextShallowOffline]_vars

SpecShallowPub == StartShallow /\ [][NextShallowPub]_vars

SpecShallowOrder == StartShallow /\ [][NextShallowOrder]_vars

SpecConnectorApi == StartConnector /\ [][NextConnectorApi]_vars

SpecConnectorPub == StartConnector /\ [][NextConnectorPub]_vars

StartEnhanced == sys = "enhanced" /\ Init

StartListener == sys = "listener" /\ Init

SpecListener == StartListener /\ [][NextListener]_vars

StartGateway ==
    /\ sys = "gateway"
    /\ InitShallow
    /\ InitGateway
    /\ InitEnhanced
    /\ InitScope
    /\ InitNetwork
    /\ InitSingleton
    /\ InitListener
    /\ ops = 0
    /\ last = [op |-> "none"]

SpecGateway == StartGateway /\ [][NextGateway]_vars

SpecEnhancedPub == StartEnhanced /\ [][NextEnhancedPub]_vars

SpecConnectorFanout == StartConnector /\ [][NextConnectorFanout]_vars

\* Registration at the ShallowHub and at the EnhancedThreadHub
SpecRegistry == StartRegistry /\ [][NextRegistry]_vars

(***************************************************************************)
(* Properties of call_api and register_api at the ShallowHub               *)
(***************************************************************************)
Returned(i) == result[i] # None

IsCall(i) == requests[i] # None /\ requests[i].kind = "call_api"

\* The listener of c takes a response whose request has already timed out.
LateResponse(c) ==
    /\ client_queue[c] # <<>>
    /\ Head(client_queue[c]).type = TYPE_API_RESPONSE
    /\ Returned(Head(client_queue[c]).message_id)
    /\ result[Head(client_queue[c]).message_id].outcome = "timeout"
    /\ client_queue'[c] = Tail(client_queue[c])

\* C1: a call_api that a connected client sent returns one outcome, the
\* response that carries the call's own message_id or a timeout; the caller's
\* response dictionary is written at most once and only with a response of
\* that id, and a call that timed out never also holds a response as its
\* outcome.  A response taken off the queue after its call timed out changes
\* no response dictionary, sets no event and touches no pending entry, of this
\* or of another request.
C1_ExactlyOneOutcome ==
    /\ [](\A i \in Ids :
            /\ response_dict[i] # None =>
                   /\ response_dict[i].message_id = i
                   /\ response_dict[i].n = 1
            /\ (IsCall(i) /\ Returned(i) /\ result[i].outcome # "not_connected") =>
                   \/ result[i].outcome = "timeout"
                   \/ /\ result[i].outcome = "response"
                      /\ result[i].from = i
                      /\ response_dict[i] # None)
    /\ [][/\ \A i \in Ids : Returned(i) => result'[i] = result[i]
          /\ \A c \in Clients : LateResponse(c) =>
                 UNCHANGED <<response_dict, response_event, pending_requests, result>>
         ]_vars

\* C1 witness: the response to a call that timed out was dropped while another
\* request of the same client was pending, and that request is still waiting.
C1_Witness ==
    \E i \in Ids, c \in Clients :
        /\ IsCall(i) /\ requests[i].client = c
        /\ Returned(i) /\ result[i].outcome = "timeout"
        /\ discarded[i] # None /\ discarded[i].late
        /\ discarded[i].waiting # {}
        /\ pc[c] = "waiting" /\ cur[c] \in discarded[i].waiting
        /\ ~response_event[cur[c]]

\* C2: when the hub takes the API response a handler's client sent for a
\* request the hub forwarded, it puts that response, under the request's
\* message_id, on the queue of the client that made the request (the origin
\* recorded at forwarding), so that the call returns the handler's response.
C2_ResponseRoutedToOrigin ==
    [][(HubTakes(TYPE_API_RESPONSE) /\ hub_queue' = Tail(hub_queue)) =>
          LET message == Head(hub_queue)
              origin == requests[message.message_id].client
          IN  (clients[origin].registered /\ clients[origin].active) =>
                  client_queue'[origin] = Append(client_queue[origin],
                      HubMessage(TYPE_API_RESPONSE, message.data, "hub",
                                 message.message_id))
      ]_vars

\* C2 witness: a call to a registered path whose active owner's handler
\* answered with success, and the hub has taken that answer.
C2_Witness ==
    \E i \in Ids :
        /\ IsCall(i)
        /\ hub_log[i] # None /\ hub_log[i].act = "answered" /\ hub_log[i].sent
        /\ api_handlers[hub_log[i].owner][requests[i].path] = "ok"

\* C3: when the hub takes a REGISTER_API message for a path its registry
\* already holds, the registry keeps the entry it had and the response it
\* sends does not report success.
C3_RegisterExistingPathConflicts ==
    [][(/\ HubTakes(TYPE_REGISTER_API)
        /\ hub_queue' = Tail(hub_queue)
        /\ api_registry[Head(hub_queue).data.path] # None) =>
          /\ api_registry' = api_registry
          /\ \A c \in Clients :
                 client_queue'[c] # client_queue[c] =>
                     ~client_queue'[c][Len(client_queue'[c])].data.success
      ]_vars

\* C3 witness: the hub has processed a registration of a path that already
\* had an entry.
C3_Witness ==
    \E i \in Ids :
        /\ hub_log[i] # None /\ hub_log[i].act = "registered"
        /\ hub_log[i].replaced # None

(***************************************************************************)
(* Properties of HubConnector.handle_request                               *)
(***************************************************************************)
\* The registered interceptors whose pattern matches a topic or path and
\* whose handler returns a value.
ValueInterceptors(table, topic) ==
    {i \in DOMAIN LocalMatching(table, topic) :
        LocalMatching(table, topic)[i].handler.kind = "value"}

\* C4: a handle_request for a path that a registered interceptor matches,
\* one that returns a value, yields a response with status "intercepted"
\* that carries the interceptor's value, and calls no handler.
C4_InterceptedBeforeLookup ==
    (/\ last.op = "handle_request"
     /\ ValueInterceptors(local_interceptors, last.path) # {}) =>
        /\ last.outcome.calls = <<>>
        /\ last.outcome.response # None
        /\ last.outcome.response.status = "intercepted"

\* C4 witness: a request for a path with a registered handler and a matching
\* interceptor that returns a value has been handled.
C4_Witness ==
    /\ last.op = "handle_request"
    /\ ValueInterceptors(local_interceptors, last.path) # {}
    /\ DictHas(local_registry, last.path)

(***************************************************************************)
(* Properties of publish at the ShallowHub                                 *)
(***************************************************************************)
IsPublish(i) == requests[i] # None /\ requests[i].kind = "publish"

\* The interceptor callback registered under an id returns a value / None.
ReturnsValue(interceptor) == requests[interceptor.interceptor_id].handler = "value"

\* How often the callback of subscription s ran for publish i.
Invocations(s, i) ==
    LET runs == UNION {{<<c, k>> : k \in {j \in DOMAIN invoked[c] :
                                  invoked[c][j] = [sub |-> s, pub |-> i]}} :
                       c \in Clients}
    IN  Cardinality(runs)

\* C5: a publish that has returned, and that the hub processed while an
\* interceptor matching its topic was registered whose callback returns a
\* value, returned a value (not None), and no subscriber callback ran for it.
C5_InterceptedPublishReturnsValue ==
    \A i \in Ids :
        (/\ IsPublish(i) /\ Returned(i)
         /\ hub_log[i] # None
         /\ \E k \in DOMAIN hub_log[i].ints : ReturnsValue(hub_log[i].ints[k])) =>
            /\ result[i].value.result # None
            /\ \A s \in Ids : Invocations(s, i) = 0

\* C5 witness: such a publish has returned.
C5_Witness ==
    \E i \in Ids :
        /\ IsPublish(i) /\ Returned(i)
        /\ hub_log[i] # None
        /\ \E k \in DOMAIN hub_log[i].ints : ReturnsValue(hub_log[i].ints[k])

\* C6: when the hub takes a PUBLISH message and every registered interceptor
\* matching its topic returns None, every matching subscription of an active
\* client gets the message put on its client's queue.
C6_NullInterceptorsContinue ==
    [][(HubTakes(TYPE_PUBLISH) /\ hub_queue' = Tail(hub_queue)) =>
          LET topic == Head(hub_queue).data.topic
              ints == MatchingEntries(interceptors, topic)
              subs == MatchingEntries(subscriptions, topic)
          IN  (\A k \in DOMAIN ints : ~ReturnsValue(ints[k])) =>
                  \A k \in DOMAIN subs :
                      (clients[subs[k].client_id].registered
                       /\ clients[subs[k].client_id].active) =>
                          Len(client_queue'[subs[k].client_id])
                              > Len(client_queue[subs[k].client_id])
      ]_vars

\* C6 witness: the hub has processed a publish whose topic was matched by a
\* subscription and by interceptors that all return None.
C6_Witness ==
    \E i \in Ids :
        /\ IsPublish(i) /\ hub_log[i] # None
        /\ hub_log[i].ints # <<>> /\ hub_log[i].subs # <<>>
        /\ \A k \in DOMAIN hub_log[i].ints : ~ReturnsValue(hub_log[i].ints[k])

\* C7: for a publish no interceptor matched, the callback of a subscription
\* never runs more than once.
C7_SubscriberInvokedOnce ==
    \A i \in Ids :
        (IsPublish(i) /\ hub_log[i] # None /\ hub_log[i].ints = <<>>) =>
            \A s \in Ids : Invocations(s, i) <= 1

\* C7 witness: a publish no interceptor matched was delivered to a client
\* that holds two subscriptions matching its topic.
C7_Witness ==
    \E i \in Ids, c \in Clients :
        /\ IsPublish(i) /\ hub_log[i] # None /\ hub_log[i].ints = <<>>
        /\ Cardinality({k \in DOMAIN hub_log[i].subs :
                           hub_log[i].subs[k].client_id = c}) >= 2
        /\ \E s \in Ids : Invocations(s, i) >= 1

(***************************************************************************)
(* Properties of HubConnector.publish                                      *)
(***************************************************************************)
\* The calls of a publish whose interceptor returned a value.
ValueCalls(calls) ==
    {k \in DOMAIN calls : InterceptorReturns(calls[k].handler) # None}

C10_DispatchInDescendingPriority ==
    last.op = "publish" =>
        \A a, b \in DOMAIN last.interceptor_calls :
            a < b => last.interceptor_calls[a].priority
                         >= last.interceptor_calls[b].priority

\* C10 witness: a publish called interceptors of different priorities.
C10_Witness ==
    /\ last.op = "publish"
    /\ \E a, b \in DOMAIN last.interceptor_calls :
           last.interceptor_calls[a].priority # last.interceptor_calls[b].priority

(***************************************************************************)
(* Properties of the registration tables                                   *)
(***************************************************************************)
\* <<priority, registration number>> of the entries of a list
HubSubscriptionKeys(list) ==
    [k \in DOMAIN list |-> <<list[k].priority, list[k].subscription_id>>]

HubInterceptorKeys(list) ==
    [k \in DOMAIN list |-> <<list[k].priority, list[k].interceptor_id>>]

ClientHandlerKeys(list) ==
    [k \in DOMAIN list |-> <<list[k].priority, list[k].id>>]

EnhancedKeys(list) ==
    [k \in DOMAIN list |-> <<list[k][1], list[k][2].id>>]

\* Descending priority, equal priorities in registration order
Ordered(keys) ==
    \A a, b \in DOMAIN keys :
        a < b => \/ keys[a][1] > keys[b][1]
                 \/ keys[a][1] = keys[b][1] /\ keys[a][2] < keys[b][2]

\* The list a table holds for a pattern, empty if it has none
ListOf(table, pattern) ==
    IF DictHas(table, pattern) THEN DictGet(table, pattern) ELSE <<>>

Occurs(keys, key) == Cardinality({k \in DOMAIN keys : keys[k] = key})

TotalEntries(table) ==
    Cardinality({<<i, k>> \in (1..MaxOps) \X (1..MaxOps) :
                    i \in DOMAIN table /\ k \in DOMAIN table[i][2]})

MatchRule(pattern, topic) ==
    \/ pattern = topic
    \/ /\ Len(pattern) >= 1
       /\ pattern[Len(pattern)] = "*"
       /\ Len(topic) >= Len(pattern) - 1
       /\ \A i \in 1..(Len(pattern) - 1) : topic[i] = pattern[i]

\* C11: for every pattern and topic, the matchers of ShallowHub,
\* ShallowHubClient and HubConnector and the matching inside
\* EnhancedThreadHub.publish_message answer what the rule says: equal strings,
\* or a pattern ending in '*' whose remainder is a prefix of the topic.
C11_MatchersFollowRule ==
    last.op = "match" =>
        /\ last.hub = MatchRule(last.pattern, last.topic)
        /\ last.client = MatchRule(last.pattern, last.topic)
        /\ last.connector = MatchRule(last.pattern, last.topic)
        /\ last.enhanced = MatchRule(last.pattern, last.topic)

\* C11 witness: a pattern with a '*' inside and one at its end matched a
\* longer topic that differs from it.
C11_Witness ==
    /\ last.op = "match"
    /\ last.hub /\ last.client /\ last.connector /\ last.enhanced
    /\ last.pattern = <<"*", "*">>
    /\ Len(last.topic) = 3

(***************************************************************************)
(* Properties of fallback and approximation at HubConnector.handle_request *)
(***************************************************************************)
IsRequest == last.op = "handle_request"

Registration(path) == DictGet(local_registry, path)

\* The registration of the requested path names a fallback path other than
\* itself, and that path is registered with a handler that answers.
DeclaresFallback(path) ==
    /\ DictHas(local_registry, path)
    /\ MetaHas(Registration(path).metadata, "fallback")
    /\ MetaGet(Registration(path).metadata, "fallback") # path
    /\ DictHas(local_registry, MetaGet(Registration(path).metadata, "fallback"))
    /\ Registration(MetaGet(Registration(path).metadata, "fallback")).handler.kind
           = "ok"

\* C12: a request for a path whose registration has no handler to answer it
\* and declares a registered fallback path is answered with the response of
\* the fallback path's handler to a copy of the request that carries the
\* fallback as its path and the requested path as metadata.original_path.
C12_FallbackResolves ==
    (/\ IsRequest
     /\ DeclaresFallback(last.path)
     /\ Registration(last.path).handler.kind = "absent") =>
        LET fallback == MetaGet(Registration(last.path).metadata, "fallback")
        IN  /\ last.outcome.raised = ""
            /\ last.outcome.response =
                   CallHandler(Registration(fallback).handler,
                       [path |-> fallback,
                        metadata |-> {<<"original_path", last.path>>}]).response

\* C12 witness: such a request has been handled.
C12_Witness ==
    /\ IsRequest
    /\ DeclaresFallback(last.path)
    /\ Registration(last.path).handler.kind = "absent"

\* C13: handle_request ends with a response for every registry and request:
\* a request whose path has no registration, so that whatever fallback names
\* it dangles, is answered NotFound and never by a recursion that does not
\* end.
C13_HandleRequestTerminates ==
    (IsRequest /\ ~DictHas(local_registry, last.path)) =>
        /\ last.outcome.raised = ""
        /\ last.outcome.response # None
        /\ last.outcome.response.status = "not_found"

\* C13 witness: a request for an unregistered path that another
\* registration names as its fallback has been handled.
C13_Witness ==
    /\ IsRequest
    /\ ~DictHas(local_registry, last.path)
    /\ FallbackEntries(local_registry, last.path) # {}

SimilarRegistered(path) ==
    {i \in DOMAIN local_registry :
        ScoresAtLeastThreshold(local_registry[i][1], path)}

\* C14: a request for an unregistered path is answered with status
\* Approximated and metadata.matched_path naming a registered path when a
\* registered path scores at or above the threshold 0.8, and with NotFound
\* when none does.
C14_ApproximationAnswers ==
    (IsRequest /\ ~DictHas(local_registry, last.path)) =>
        /\ last.outcome.response # None
        /\ IF SimilarRegistered(last.path) # {}
           THEN /\ last.outcome.response.status = "approximated"
                /\ \E i \in SimilarRegistered(last.path) :
                       <<"matched_path", local_registry[i][1]>>
                           \in last.outcome.response.metadata
           ELSE last.outcome.response.status = "not_found"

\* C14 witness: a request for an unregistered path has been handled while a
\* path that scores exactly the threshold is registered with a handler that
\* answers.
C14_Witness ==
    /\ IsRequest
    /\ ~DictHas(local_registry, last.path)
    /\ \E i \in SimilarRegistered(last.path) :
           /\ local_registry[i][2].handler.kind = "ok"
           /\ EditDistance(local_registry[i][1], last.path) = 1
           /\ Len(local_registry[i][1]) = 5

(***************************************************************************)
(* Properties of the status of a response                                  *)
(***************************************************************************)
\* The handlers registered as interceptors at the HubConnector
InterceptorIds ==
    UNION {{local_interceptors[i][2][k].handler.id :
                k \in DOMAIN local_interceptors[i][2]} :
           i \in DOMAIN local_interceptors}

\* The response is what the last callable invoked returned, an interceptor.
ProducedByInterceptor(outcome) ==
    /\ outcome.calls # <<>>
    /\ outcome.calls[Len(outcome.calls)] \in InterceptorIds

\* The response is the answer of the handler of another path than the one
\* asked for, reached by no fallback rewrite.
ProducedByApproximation(outcome, path) ==
    /\ outcome.response.data # NoData
    /\ outcome.response.data[2] # path
    /\ ~MetaHas(outcome.response.metadata, "original_path")

Labels == {"intercepted", "approximated"}

TakesUnregistered ==
    /\ HubTakes(TYPE_API_REQUEST)
    /\ hub_queue' = Tail(hub_queue)
    /\ api_registry[Head(hub_queue).data.path] = None

\* One message more on the queue of c: a NOT_FOUND response with this id.
GetsNotFound(c, message_id) ==
    /\ Len(client_queue'[c]) = Len(client_queue[c]) + 1
    /\ SubSeq(client_queue'[c], 1, Len(client_queue[c])) = client_queue[c]
    /\ client_queue'[c][Len(client_queue'[c])].type = TYPE_API_RESPONSE
    /\ client_queue'[c][Len(client_queue'[c])].message_id = message_id
    /\ client_queue'[c][Len(client_queue'[c])].data.status = "not_found"

\* C16 as claimed: a hub that takes an API request for an unregistered path
\* puts exactly one NOT_FOUND response with the request's message_id on the
\* requester's queue, puts nothing on another client's queue and keeps no
\* origin for the request.
C16_NotFoundAlwaysSent ==
    [][TakesUnregistered =>
          LET message == Head(hub_queue)
          IN  /\ GetsNotFound(message.client_id, message.message_id)
              /\ \A c \in Clients \ {message.client_id} :
                     client_queue'[c] = client_queue[c]
              /\ hub_log'[message.message_id] = [act |-> "not_found"]
              /\ GetRequestOrigin(message.message_id) = NoClient
      ]_vars

\* C16: the same, for a requester that is still an active client of the hub;
\* to a requester that has disconnected in the meantime the hub sends
\* nothing.
C16_NotFoundSentToActiveRequester ==
    [][TakesUnregistered =>
          LET message == Head(hub_queue)
          IN  /\ IF clients[message.client_id].registered
                    /\ clients[message.client_id].active
                 THEN GetsNotFound(message.client_id, message.message_id)
                 ELSE client_queue'[message.client_id]
                          = client_queue[message.client_id]
              /\ \A c \in Clients \ {message.client_id} :
                     client_queue'[c] = client_queue[c]
              /\ hub_log'[message.message_id] = [act |-> "not_found"]
              /\ GetRequestOrigin(message.message_id) = NoClient
      ]_vars

\* C16 witness: the hub has answered NOT_FOUND to a call whose caller then
\* returned that response.
C16_Witness ==
    \E i \in Ids :
        /\ IsCall(i)
        /\ hub_log[i] # None /\ hub_log[i].act = "not_found"
        /\ Returned(i)
        /\ result[i].outcome = "response"
        /\ result[i].value.status = "not_found"

(***************************************************************************)
(* Properties of a failing handler                                         *)
(***************************************************************************)
\* C17: a request whose registered handler raises is answered with a
\* response of status Error; no exception leaves handle_request.
C17_HandlerFailureBecomesError ==
    (/\ IsRequest
     /\ DictHas(local_registry, last.path)
     /\ Registration(last.path).handler.kind = "raise") =>
        /\ last.outcome.raised = ""
        /\ last.outcome.response # None
        /\ last.outcome.response.status = "error"

\* C17 witness: a request for a path whose handler raises has been handled,
\* and the handler was called.
C17_Witness ==
    /\ IsRequest
    /\ DictHas(local_registry, last.path)
    /\ Registration(last.path).handler.kind = "raise"
    /\ last.outcome.calls = <<Registration(last.path).handler.id>>

(***************************************************************************)
(* Properties of request/response correlation at the ShallowHub            *)
(***************************************************************************)
\* A response with this id lies on the queue of c.
ResponseQueued(c, message_id) ==
    \E k \in DOMAIN client_queue[c] :
        /\ client_queue[c][k].type = TYPE_API_RESPONSE
        /\ client_queue[c][k].message_id = message_id

\* The hub puts a message on the queue of c in this step.
Delivers(c) ==
    /\ Len(client_queue'[c]) = Len(client_queue[c]) + 1
    /\ SubSeq(client_queue'[c], 1, Len(client_queue[c])) = client_queue[c]

Delivered(c) == client_queue'[c][Len(client_queue'[c])]

\* C18: a response the hub puts on a client's queue goes to the client that
\* sent the request with the response's message_id, and no response with
\* that id was delivered before (none is queued, none was handed to a waiting
\* call, none was taken and dropped); a response that reaches the hub and
\* whose id has no recorded origin is put on no queue.
C18_ResponseOnlyToOriginOnce ==
    /\ [][\A c \in Clients :
             (Delivers(c) /\ Delivered(c).type = TYPE_API_RESPONSE) =>
                 /\ requests[Delivered(c).message_id] # None
                 /\ requests[Delivered(c).message_id].client = c
                 /\ \A d \in Clients :
                        ~ResponseQueued(d, Delivered(c).message_id)
                 /\ ~response_event[Delivered(c).message_id]
                 /\ discarded[Delivered(c).message_id] = None
         ]_vars
    /\ [][(/\ HubTakes(TYPE_API_RESPONSE)
           /\ hub_queue' = Tail(hub_queue)
           /\ GetRequestOrigin(Head(hub_queue).message_id) = NoClient) =>
              client_queue' = client_queue
         ]_vars

\* C18 witness: with both clients active, the response to one request has
\* reached its sender's waiting call, and the hub has taken a handler's
\* response to a call.
C18_Witness ==
    \E i, j \in Ids :
        /\ requests[i] # None /\ response_event[i]
        /\ response_dict[i].message_id = i
        /\ IsCall(j)
        /\ hub_log[j] # None /\ hub_log[j].act = "answered"
        /\ \A c \in Clients : clients[c].active

(***************************************************************************)
(* Properties of the ShallowHub when a client leaves                       *)
(***************************************************************************)
\* C19: no pending-request record outlives its request: once a request has
\* returned, with the response or at the deadline, no client holds a pending
\* entry for its id and the hub finds no origin for it, and when a client
\* disconnects its pending entries are gone.
C19_PendingRecordRemoved ==
    /\ [](\A i \in Ids : Returned(i) =>
             /\ \A c \in Clients : i \notin pending_requests[c]
             /\ GetRequestOrigin(i) = NoClient)
    /\ [][\A c \in Clients : (connected[c] /\ ~connected'[c]) =>
             pending_requests'[c] = {}]_vars

\* C19 witness: a client has been disconnected while its call waits for the
\* response.
C19_Witness ==
    \E c \in Clients :
        /\ ~connected[c]
        /\ pc[c] = "waiting"
        /\ IsCall(cur[c])
        /\ cur[c] \in pending_requests[c]

\* The hub holds a registration, subscription or interceptor of client c.
HubHoldsEntryOf(c) ==
    \/ \E p \in Paths : api_registry[p] # None /\ api_registry[p].client_id = c
    \/ \E i \in DOMAIN subscriptions : \E k \in DOMAIN subscriptions[i][2] :
           subscriptions[i][2][k].client_id = c
    \/ \E i \in DOMAIN interceptors : \E k \in DOMAIN interceptors[i][2] :
           interceptors[i][2][k].client_id = c

\* C20: once a client has disconnected (the hub has marked it inactive), the
\* hub eventually holds no API registration, subscription or interceptor of
\* that client, and from the disconnect on it puts no message on that
\* client's queue.
C20_DisconnectRemovesRegistrations ==
    /\ \A c \in Clients :
           (clients[c].registered /\ ~clients[c].active) ~> ~HubHoldsEntryOf(c)
    /\ [][\A c \in Clients : (clients[c].registered /\ ~clients[c].active) =>
             client_queue'[c] = client_queue[c]
             \/ Len(client_queue'[c]) < Len(client_queue[c])]_vars

\* C20 witness: a client whose API registration the hub holds has
\* disconnected, and the hub has since taken a call to that path.
C20_Witness ==
    \E c \in Clients, i \in Ids :
        /\ clients[c].registered /\ ~clients[c].active
        /\ HubHoldsEntryOf(c)
        /\ IsCall(i)
        /\ hub_log[i] # None /\ hub_log[i].act = "forwarded"
        /\ hub_log[i].owner = c /\ ~hub_log[i].sent

(***************************************************************************)
(* Properties of method interception                                       *)
(***************************************************************************)
IsMethodCall == last.op = "call"

\* The method interceptors registered at the program that runs, each with the
\* class it was registered for
RegisteredMethodInterceptors(method_name) ==
    IF sys = "connector"
    THEN UNION {
           {[id |-> LocalMethodInterceptors(local_method_interceptors,
                        cls, method_name)[k].handler.id,
             kind |-> LocalMethodInterceptors(local_method_interceptors,
                        cls, method_name)[k].handler.kind,
             priority |-> LocalMethodInterceptors(local_method_interceptors,
                        cls, method_name)[k].priority,
             cls |-> cls] :
            k \in DOMAIN LocalMethodInterceptors(local_method_interceptors,
                                                 cls, method_name)} :
           cls \in Classes}
    ELSE UNION {
           {[id |-> MroLists(method_interceptors, <<cls>>, method_name)[k][2].id,
             kind |-> MroLists(method_interceptors, <<cls>>, method_name)[k][2].handler,
             priority |-> MroLists(method_interceptors, <<cls>>, method_name)[k][1],
             cls |-> cls] :
            k \in DOMAIN MroLists(method_interceptors, <<cls>>, method_name)} :
           cls \in Classes}

\* Position of a class among the types of an instance, most specific first
Specificity(instance_cls, cls) ==
    CHOOSE k \in DOMAIN Mro(instance_cls) : Mro(instance_cls)[k] = cls

\* Interceptor a is tried no later than interceptor b for such an instance.
TriedNoLater(instance_cls, a, b) ==
    \/ Specificity(instance_cls, a.cls) < Specificity(instance_cls, b.cls)
    \/ /\ a.cls = b.cls
       /\ a.priority >= b.priority

\* The interceptors that apply to a call on an instance of instance_cls
Applicable(instance_cls, method_name) ==
    {e \in RegisteredMethodInterceptors(method_name) :
        \E k \in DOMAIN Mro(instance_cls) : Mro(instance_cls)[k] = e.cls}

ById(method_name, id) ==
    CHOOSE e \in RegisteredMethodInterceptors(method_name) : e.id = id

\* C21: the interceptors invoked for a call of m on an instance are
\* interceptors registered for (T, m) with T the instance's type or one of its
\* supertypes, they are invoked from the most specific type to the most
\* general and within a type in descending priority, only the last one
\* invoked returns a value, and an applicable interceptor is left out only
\* when the value came from one that is tried no later.
C21_ConsultedBySpecificityThenPriority ==
    IsMethodCall =>
        LET calls == last.outcome.calls
            applicable == Applicable(last.cls, last.method)
            called == {ById(last.method, calls[k]) : k \in DOMAIN calls}
        IN  /\ called \subseteq applicable
            /\ \A k, l \in DOMAIN calls : k < l =>
                   TriedNoLater(last.cls, ById(last.method, calls[k]),
                                ById(last.method, calls[l]))
            /\ \A k \in DOMAIN calls : k < Len(calls) =>
                   ById(last.method, calls[k]).kind = "null"
            /\ \A e \in applicable \ called :
                   /\ calls # <<>>
                   /\ ById(last.method, calls[Len(calls)]).kind = "value"
                   /\ TriedNoLater(last.cls, ById(last.method, calls[Len(calls)]), e)

\* C21 witness: a method has been called on an instance of the derived class
\* while an interceptor is registered for the base class and none for the
\* derived class.
C21_Witness ==
    /\ IsMethodCall
    /\ last.cls = "WebSearcher"
    /\ \E e \in Applicable(last.cls, last.method) : e.cls = "FileSearcher"
    /\ \A e \in Applicable(last.cls, last.method) : e.cls = "FileSearcher"

\* The invoked interceptors that returned a value, by position in the call
ReturnedValue(method_name, calls) ==
    {k \in DOMAIN calls : ById(method_name, calls[k]).kind = "value"}

\* C22: a call through an interceptable wrapper or proxy in which an
\* interceptor returned a value returns the first such value, invokes no
\* interceptor after it and does not invoke the original method; a call in
\* which every interceptor invoked returned null invokes the original method
\* once, with the caller's arguments, and returns its result.
C22_FirstValueOrOriginal ==
    IsMethodCall =>
        LET calls == last.outcome.calls
            values == ReturnedValue(last.method, calls)
        IN  IF values # {}
            THEN /\ values = {Len(calls)}
                 /\ last.outcome.result =
                        [by |-> calls[Len(calls)], role |-> "interceptor"]
                 /\ last.outcome.original = <<>>
            ELSE /\ last.outcome.original = <<last.args>>
                 /\ last.outcome.result = OriginalReturns(last.cls, last.args)

\* C22 witness: a call in which one interceptor returned null and the next
\* one a value, while a further interceptor applies.
C22_Witness ==
    /\ IsMethodCall
    /\ Len(last.outcome.calls) = 2
    /\ ReturnedValue(last.method, last.outcome.calls) = {2}
    /\ Cardinality(Applicable(last.cls, last.method)) >= 3

(***************************************************************************)
(* Properties of the hub hierarchy of the system pseudocode                *)
(***************************************************************************)
IsScopeCall == sys = "scope" /\ last.op = "call_api"

Answered == IsScopeCall /\ last.outcome.raised = ""

StepsTaken == {last.outcome.steps[i] : i \in 1..Len(last.outcome.steps)}

\* The path of the call has a handler at P only, and no interceptor of T or
\* P takes the request
RegisteredOnlyAtParent ==
    /\ IsScopeCall
    /\ last.hub = "T"
    /\ ~Intercepts("T", [path |-> last.path])
    /\ ~RegistryLookup("T", last.path)
    /\ ~Intercepts("P", [path |-> last.path])
    /\ RegistryLookup("P", last.path)

\* C23: a request made at the thread hub T for a path that only the parent
\* hub P has a handler for, with no interceptor at T, is answered by P's
\* handler with success, under the request id it was made with, and the
\* response metadata's escalated_from names T.
C23_EscalationAnsweredByParent ==
    RegisteredOnlyAtParent =>
        /\ Answered
        /\ last.outcome.response.status = "success"
        /\ last.outcome.response.data = <<"P", last.path>>
        /\ last.outcome.request.request_id = last.request_id
        /\ <<"escalated_from", <<"T">>>> \in last.outcome.response.metadata

C23_Witness ==
    /\ RegisteredOnlyAtParent
    /\ Answered
    /\ last.outcome.response.status = "success"
    /\ last.outcome.response.data = <<"P", last.path>>
    /\ last.outcome.request.request_id = last.request_id
    /\ last.outcome.steps = <<<<"T", "parent">>, <<"P", "local">>>>

\* The call was made at T, T passed it to its parent, and the answer is
\* not_found
ParentChainNotFound ==
    /\ Answered
    /\ last.hub = "T"
    /\ last.outcome.steps[1] = <<"T", "parent">>
    /\ last.outcome.response.status = "not_found"

\* T has a fallback or a similar path of its own for the path of the call
OwnRewriteApplies ==
    \/ HasFallback("T", last.path)
    \/ SimilarPaths("T", last.path) # {}

\* C24: when the parent chain of T answers not_found and T has a fallback or
\* a similar path of its own for the request, T has attempted its fallback
\* rewrite or its approximation before not_found is returned.
C24_OwnFallbackAfterParentFails ==
    (ParentChainNotFound /\ OwnRewriteApplies) =>
        \/ <<"T", "fallback">> \in StepsTaken
        \/ <<"T", "approximate">> \in StepsTaken

C24_Witness ==
    /\ ParentChainNotFound
    /\ SimilarPaths("T", last.path) # {}
    /\ last.outcome.steps = <<<<"T", "parent">>, <<"P", "not_found">>>>

(***************************************************************************)
(* Properties of the order of publications                                 *)
(***************************************************************************)


\* The callback sub of client c ran for publication a and, later, for b
InvokedInOrder(c, a, b) ==
    \E i, j \in DOMAIN invoked[c] :
        /\ i < j
        /\ invoked[c][i].sub = invoked[c][j].sub
        /\ invoked[c][i].pub = a
        /\ invoked[c][j].pub = b

\* C25: of two messages that one publisher published one after the other,
\* no subscriber callback is invoked for the later one before the earlier
\* one (message ids are handed out in the order of the publish calls).
C25_PublisherOrderPreserved ==
    \A c \in Clients : \A a, b \in Ids :
        (/\ IsPublish(a) /\ IsPublish(b)
         /\ requests[a].client = requests[b].client
         /\ a < b)
            => ~InvokedInOrder(c, b, a)

\* The publisher gave up waiting for its first message and published the
\* second; the subscriber's callback ran for both
C25_Witness ==
    \E c \in Clients : \E a, b \in Ids :
        /\ IsPublish(a) /\ IsPublish(b)
        /\ requests[a].client = requests[b].client
        /\ a < b
        /\ result[a] # None
        /\ result[a].outcome = "timeout"
        /\ InvokedInOrder(c, a, b)

(***************************************************************************)
(* Properties of who writes the hub's tables                               *)
(***************************************************************************)
\* The step is the hub worker's: it takes the message at the head of the hub
\* queue
HubWorkerStep == hub_queue # <<>> /\ hub_queue' = Tail(hub_queue)

\* C26: the hub's API registry, subscription table, interceptor table and
\* client table change only in a step of the hub worker that processes a
\* message from the hub queue; connect and disconnect included.
C26_TablesWrittenOnlyByHubWorker ==
    [][hub_tables' # hub_tables => HubWorkerStep]_vars

\* No message was ever put on the hub queue and the client table has changed
C26_Witness ==
    /\ sys = "shallow"
    /\ next_id = 1
    /\ hub_queue = <<>>
    /\ \E c \in Clients : clients[c].registered /\ ~clients[c].active

(***************************************************************************)
(* Properties of the NetworkHubClient                                      *)
(***************************************************************************)
\* Thread t is in a blocking call on the socket and holds connect_lock
HoldsLockInTransportIO(t) == net_pc[t] \in InTransportIO /\ connect_lock = t

\* Thread u has called connect, disconnect or a sending method and waits for
\* connect_lock
BlockedOnLock(u) == net_pc[u] \in Acquiring /\ connect_lock # NoThread

\* C27: no thread of a NetworkHubClient holds a lock while it is in transport
\* I/O: while one thread sends or waits for a response, no other thread that
\* calls connect, disconnect or sends is blocked on a lock the first holds.
C27_NoLockAcrossTransportIO ==
    \A t, u \in NetThreads :
        (t # u /\ HoldsLockInTransportIO(t)) => ~BlockedOnLock(u)

C27_Witness ==
    /\ net_pc["n1"] = "send_waiting"
    /\ connect_lock = "n1"
    /\ net_pc["n2"] = "disconnect_acquire"

\* The call of thread t failed on a transport error of the connection while
\* its request was outstanding
FailedOnBrokenConnection(t) ==
    /\ net_log[t].op = "send"
    /\ net_log[t].outcome = "ConnectionError"
    /\ \E i \in DOMAIN net_log[t].steps : net_log[t].steps[i] = "transport_error"

\* The reconnect attempts the call made after the transport error
ReconnectAttempts(t) ==
    Cardinality({j \in DOMAIN net_log[t].steps :
        /\ net_log[t].steps[j] = "connect"
        /\ \E i \in 1..(j - 1) : net_log[t].steps[i] = "transport_error"})

\* C28: a request whose connection broke while it was outstanding fails with
\* a transport error only after reconnect attempts, at least one and at most
\* three, were made for it.
C28_FailsAfterRetryWindow ==
    \A t \in NetThreads :
        FailedOnBrokenConnection(t) =>
            /\ ReconnectAttempts(t) >= 1
            /\ ReconnectAttempts(t) <= 3

\* The request was sent, the connection broke while it waited for the
\* response, and it failed at once
C28_Witness ==
    \E t \in NetThreads :
        /\ FailedOnBrokenConnection(t)
        /\ net_log[t].steps = <<"sendall", "transport_error">>
        /\ ReconnectAttempts(t) = 0

(***************************************************************************)
(* Properties of the shutdown of the hub                                   *)
(***************************************************************************)
ShutdownRequested == sys = "shallow" /\ shutdown_at > 0

\* Request i reached the hub queue after shutdown() was called
SentAfterShutdown(i) ==
    /\ ShutdownRequested
    /\ i >= shutdown_at
    /\ requests[i] # None
    /\ result[i] = None \/ result[i].outcome # "not_connected"

\* Request i was on its way when shutdown() was called
PendingAtShutdown(i) ==
    /\ ShutdownRequested
    /\ i < shutdown_at
    /\ \E k \in DOMAIN hub_queue : hub_queue[k].message_id = i

\* The hub answered registration i, and with a refusal
RejectedByHub(i) ==
    /\ result[i].outcome = "response"
    /\ ~result[i].value.ok

\* The hub worker has left its loop
HubStopped == hub_running = "cleared"

\* C29: once shutdown is requested the hub drains: a registration made after
\* the request is answered by the hub with a refusal, and the hub worker
\* does not stop while a request that was pending at the shutdown is still
\* in its queue and its caller still waits.
C29_DrainsOnShutdown ==
    /\ \A i \in Ids :
           (SentAfterShutdown(i) /\ requests[i].kind = "register_api"
                /\ result[i] # None)
               => RejectedByHub(i)
    /\ \A i \in Ids :
           (PendingAtShutdown(i) /\ HubStopped) => result[i] # None

\* A call is left in the queue of the stopped hub with its caller waiting,
\* and a registration made after the shutdown has timed out
C29_Witness ==
    /\ HubStopped
    /\ \E i \in Ids :
           /\ PendingAtShutdown(i)
           /\ requests[i].kind = "call_api"
           /\ result[i] = None
    /\ \E i \in Ids :
           /\ SentAfterShutdown(i)
           /\ requests[i].kind = "register_api"
           /\ result[i] # None
           /\ result[i].outcome = "timeout"

(***************************************************************************)
(* Properties of to_dict / from_dict                                       *)
(***************************************************************************)
IsRoundTrip(class) ==
    /\ sys = "codec"
    /\ last.op = "round_trip"
    /\ last.original.class = class

\* C30: HubMessage.from_dict(m.to_dict()) has the type, data, client_id,
\* message_id and timestamp of m, and the round trip of a Message, an
\* ApiRequest and an ApiResponse gives back an equal object.
C30_RoundTripPreserves ==
    /\ IsRoundTrip("HubMessage") =>
           /\ last.restored.type = last.original.type
           /\ last.restored.data = last.original.data
           /\ last.restored.client_id = last.original.client_id
           /\ last.restored.message_id = last.original.message_id
           /\ last.restored.timestamp = last.original.timestamp
    /\ (\E class \in {"Message", "ApiRequest", "ApiResponse"} : IsRoundTrip(class))
           => last.restored = last.original

\* A HubMessage made again from its dictionary at a later reading of the
\* clock: everything but the timestamp is as it was
C30_Witness ==
    /\ IsRoundTrip("HubMessage")
    /\ last.restored.type = last.original.type
    /\ last.restored.data = last.original.data
    /\ last.restored.client_id = last.original.client_id
    /\ last.restored.message_id = last.original.message_id
    /\ last.dict.timestamp = last.original.timestamp
    /\ last.restored.timestamp > last.original.timestamp

(***************************************************************************)
(* Properties of EnhancedThreadHub.get_instance                            *)
(***************************************************************************)
\* Every call of thread t returned the same hub
SameHubWithinThread(t) ==
    \A i, j \in DOMAIN got[t] : got[t][i] = got[t][j]

\* No call of thread t returned a hub that a call of thread u returned
DifferentHubs(t, u) ==
    \A i \in DOMAIN got[t] : \A j \in DOMAIN got[u] : got[t][i] # got[u][j]

\* C31: get_instance is a singleton per thread: all calls of one thread
\* return the same hub, calls of different threads return different hubs,
\* and no more hubs are constructed than there are threads that called.
C31_SingletonPerThread ==
    /\ \A t \in HubThreads : SameHubWithinThread(t)
    /\ \A t, u \in HubThreads : t # u => DifferentHubs(t, u)
    /\ hubs_made <= Cardinality({t \in HubThreads : got[t] # <<>> \/ get_pc[t] # "idle"})

\* Two threads called one after the other and hold the same hub
C31_Witness ==
    /\ sys = "singleton"
    /\ hubs_made = 1
    /\ got["h1"] = <<<<1>>>>
    /\ got["h2"] = <<<<1>>>>

(***************************************************************************)
(* Properties of the NetworkHubClient's methods                            *)
(***************************************************************************)
\* The call of thread t found the client not connected, and its connect
\* failed
CouldNotConnect(t) ==
    /\ net_log[t].ended # None
    /\ net_log[t].steps = <<"connect", "connect_failed">>

\* C32: call_api and publish raise ConnectionError when the client is not
\* connected and cannot connect.
C32_RaisesWhenNotConnected ==
    \A t \in NetThreads :
        (net_log[t].op \in {"call_api", "publish"} /\ CouldNotConnect(t))
            => net_log[t].ended.raised = "ConnectionError"

\* _send_request raised ConnectionError and call_api returned a response
C32_Witness ==
    \E t \in NetThreads :
        /\ net_log[t].op = "call_api"
        /\ CouldNotConnect(t)
        /\ net_log[t].outcome = "ConnectionError"
        /\ net_log[t].ended = [raised |-> "", returns |-> "ApiResponse(ERROR)"]

(***************************************************************************)
(* Properties of the client's bookkeeping of its requests                  *)
(***************************************************************************)
\* The listener of client c found no pending entry for the response to the
\* request that c's application thread is making
DroppedWhileCallerWaits(c) ==
    /\ pc[c] \in {"sent", "waiting"}
    /\ discarded[cur[c]] # None

\* C33: the listener thread finds the pending_requests entry of a request
\* whenever it processes the response to it: no response to a request whose
\* caller still waits is dropped as an unknown request.
C33_ResponseFindsPendingEntry ==
    \A c \in Clients : ~DroppedWhileCallerWaits(c)

\* The response came before the entry was stored; the caller now waits for
\* an event that nothing will set
C33_Witness ==
    \E c \in Clients :
        /\ DroppedWhileCallerWaits(c)
        /\ pc[c] = "waiting"
        /\ cur[c] \in pending_requests[c]
        /\ ~response_event[cur[c]]
        /\ ResponseLost(c)

(***************************************************************************)
(* Properties of failed registrations                                      *)
(***************************************************************************)
\* register_api call i has returned False
RegistrationFailed(i) ==
    /\ sys = "shallow"
    /\ requests[i] # None
    /\ requests[i].kind = "register_api"
    /\ result[i] # None
    /\ ~result[i].value.ok

\* Call i is the only register_api that its client has made for its path,
\* so the client had no handler for the path before it
OnlyRegistration(i) ==
    \A j \in Ids \ {i} :
        ~(/\ requests[j] # None
          /\ requests[j].kind = "register_api"
          /\ requests[j].client = requests[i].client
          /\ requests[j].path = requests[i].path)

\* C34: a register_api that returns False (not connected, timeout or a
\* refusal of the hub) leaves api_handlers as it was before the call: a
\* client whose only registration of a path failed holds no handler for it.
C34_FailedRegistrationLeavesNoHandler ==
    \A i \in Ids :
        (RegistrationFailed(i) /\ OnlyRegistration(i))
            => api_handlers[requests[i].client][requests[i].path] = NoHandler

\* A client that was not connected called register_api: False, and the
\* handler is in api_handlers
C34_Witness ==
    \E i \in Ids :
        /\ RegistrationFailed(i)
        /\ OnlyRegistration(i)
        /\ result[i].outcome = "not_connected"
        /\ api_handlers[requests[i].client][requests[i].path] = requests[i].handler
        /\ api_registry[requests[i].path] = None

(***************************************************************************)
(* Properties of a disconnected client                                     *)
(***************************************************************************)
\* The messages of client c on the hub queue q
QueuedFrom(c, q) == {q[k] : k \in {j \in 1..Len(q) : q[j].client_id = c}}

\* This step is an operation of client c: register_api, call_api or publish
\* is called and takes the next message id
OperationOf(c) ==
    /\ next_id \in Ids
    /\ next_id' = next_id + 1
    /\ requests'[next_id] # None
    /\ requests'[next_id].client = c

\* What the operation with id i hands back says that it failed
ReturnsFailure(kind, returned) ==
    /\ returned # None
    /\ CASE kind = "register_api" -> returned.value.ok = FALSE
         [] kind = "call_api" -> returned.value.status = "error"
         [] kind = "publish" -> returned.value.result = None
         [] OTHER -> FALSE

\* C35: while a client is disconnected (disconnect has returned and connect
\* has not been called since), every register_api, call_api and publish of
\* the client ends at once, with False, with a response of status ERROR and
\* with None, the hub's tables stay as they are, and no message of the client
\* is put on the hub queue.
C35_OfflineOperationsFail ==
    [][\A c \in Clients :
          (sys = "shallow" /\ ~connected[c]) =>
              /\ QueuedFrom(c, hub_queue') \subseteq QueuedFrom(c, hub_queue)
              /\ OperationOf(c) =>
                     /\ ReturnsFailure(requests'[next_id].kind, result'[next_id])
                     /\ pc'[c] = "idle"
                     /\ hub_queue' = hub_queue
                     /\ hub_tables' = hub_tables]_vars

\* A disconnected client has called publish and one of register_api and
\* call_api, and both calls have returned
C35_Witness ==
    /\ sys = "shallow"
    /\ \E c \in Clients, i, j \in Ids :
           /\ ~connected[c]
           /\ requests[i] # None /\ requests[i].client = c
           /\ requests[i].kind = "publish"
           /\ result[i] # None /\ result[i].outcome = "not_connected"
           /\ requests[j] # None /\ requests[j].client = c
           /\ requests[j].kind \in {"register_api", "call_api"}
           /\ result[j] # None /\ result[j].outcome = "not_connected"

(***************************************************************************)
(* Properties of the fan-out to subscribers                                *)
(***************************************************************************)
\* The last operation was a publish that no interceptor answered
PublishedNotIntercepted ==
    /\ sys = "connector"
    /\ last.op = "publish"
    /\ \A i \in DOMAIN last.interceptor_calls :
           InterceptorReturns(last.interceptor_calls[i].handler) = None

\* C36: when a publish is not intercepted, every subscriber whose pattern
\* matches the topic is invoked, whether or not the callback of another
\* subscriber fails, and publish returns None to the publisher.
C36_FanOutSurvivesFailingCallback ==
    PublishedNotIntercepted =>
        /\ last.subscriber_calls = LocalMatching(local_subscriptions, last.topic)
        /\ ~last.raised
        /\ last.result = None

\* A publish that no interceptor answered, with two matching subscribers, the
\* first of which has a callback that raises
C36_Witness ==
    /\ PublishedNotIntercepted
    /\ LET matching == LocalMatching(local_subscriptions, last.topic)
       IN  /\ Len(matching) >= 2
           /\ matching[1].callback.kind = "raises"
           /\ matching[2].callback.kind = "returns"

(***************************************************************************)
(* Properties of the interceptor calls of one publish                      *)
(***************************************************************************)
\* No element occurs twice in the sequence
NoRepeats(seq) == \A i, j \in DOMAIN seq : i # j => seq[i] # seq[j]

\* C37: one publish_message calls no registered interceptor more than once,
\* whatever the topic and the patterns are, also when the topic is itself a
\* registered pattern that ends with '*'.
C37_InterceptorCalledAtMostOnce ==
    (sys = "enhanced" /\ last.op = "publish_message") => NoRepeats(last.calls)

\* A message was published on a topic that ends with '*', under which an
\* interceptor is registered, and the interceptor was called
C37_Witness ==
    /\ sys = "enhanced"
    /\ last.op = "publish_message"
    /\ EndsWithStar(last.topic)
    /\ DictHas(message_interceptors, last.topic)
    /\ last.calls # <<>>

(***************************************************************************)
(* Properties of the subscription listener                                 *)
(***************************************************************************)
\* The thread of _subscription_listener is alive
ListenerAlive == listener_pc \in {"test", "ensure"}

\* C38: whenever the network client is connected and holds at least one
\* subscription handler, a subscription listener thread is running, after
\* any sequence of connect, disconnect and reconnect.
C38_ListenerRunsWhileSubscribed ==
    (sys = "listener" /\ connection # "None" /\ handlers_stored > 0)
        => ListenerAlive

\* The client subscribed, was disconnected and connected again: it is
\* connected, holds a handler and the flag _running is False
C38_Witness ==
    /\ sys = "listener"
    /\ connection # "None"
    /\ handlers_stored > 0
    /\ subscription_thread = "Thread"
    /\ ~net_running

(***************************************************************************)
(* Properties of the end of _send_request                                  *)
(***************************************************************************)
\* The call of thread t has received the complete response of the hub
ResponseComplete(t) ==
    /\ sys = "network"
    /\ \E i \in DOMAIN net_log[t].steps : net_log[t].steps[i] = "response_complete"

\* C39: a _send_request that has received the complete response ends by
\* returning the response, without the hub having to close the connection,
\* and every call that has ended has released connect_lock.
C39_ReturnsOnCompleteResponse ==
    \A t \in NetThreads :
        /\ (ResponseComplete(t) /\ net_log[t].ended # None)
               => /\ net_log[t].outcome = "response"
                  /\ net_log[t].steps[Len(net_log[t].steps)] # "recv_empty"
        /\ (sys = "network" /\ net_pc[t] = "idle") => connect_lock # t

\* A _send_request received the complete response and has ended
C39_Witness ==
    \E t \in NetThreads :
        /\ ResponseComplete(t)
        /\ net_log[t].ended # None
        /\ net_pc[t] = "idle"
        /\ connect_lock # t

(***************************************************************************)
(* Properties of the gateway's proxy registration                          *)
(***************************************************************************)
\* The last operation was an HTTP request, which the gateway mapped to an
\* API path that begins with '/proxy/'
ProxiedRequest ==
    /\ sys = "gateway"
    /\ last.op = "http_request"
    /\ Len(last.api_path) >= 2
    /\ last.api_path[1] = "proxy"

\* C40: every HTTP request, which the gateway maps to an API path that begins
\* with '/proxy/', is resolved to _handle_proxy_request, so that the lookup in
\* the registry never answers NOT_FOUND, in particular not for a path that a
\* route was added for.
C40_ProxyIsCatchAll ==
    ProxiedRequest =>
        /\ last.outcome.calls = <<ProxyRequestHandler.id>>
        /\ last.status_code # "404"

\* An HTTP request for a path that a route was added for
C40_Witness ==
    /\ ProxiedRequest
    /\ RouteOf(last.api_path) \in routes
    /\ last.path \in {<<"users">>, <<"proxy", "users">>}

====
